---- MODULE Spec2Model ----
(***************************************************************************)
(* A model of the PE image parser of asm_testing (src/src/parser).         *)
(*                                                                         *)
(* The input buffer is the sequence of bytes `buf`.  A Rust slice          *)
(* `&[u8]` of that buffer is the pair [s, e) of absolute 0-based offsets    *)
(* into it, so that `input: &mut &[u8]` is the slice variable `input`.      *)
(*                                                                         *)
(* Integers wider than 16 bits are kept as little-endian sequences of      *)
(* 16-bit limbs (a u32 has 2 limbs, a u64 and a usize have 4), so that no   *)
(* decoded value is cut to fewer bits than the program keeps.               *)
(*                                                                         *)
(* A parser result is [ok |-> TRUE, val, rest] or [ok |-> FALSE, err,      *)
(* rest], `rest` being the slice left in the `&mut` argument; err is the   *)
(* ErrMode / ErrorKind the failing site names ("Incomplete", "Verify",     *)
(* "Fail", "Eof"), "Slice" for a failure inside winnow's take_while, and   *)
(* "Panic" for a Rust panic.                                                *)
(***************************************************************************)
EXTENDS Integers, Sequences, FiniteSets, TLC

VARIABLES
  buf,         \* the input byte buffer
  build,       \* "debug" (overflow checks on) or "release" (wrapping)
  input,       \* the cursor: the slice of buf not yet consumed
  pc,          \* the step of the parse that runs next
  err,         \* the failure the parse ended with, "none" otherwise
  dos_header,  \* DOSHeader, <<>> until parsed
  dos_stub,    \* the DOS stub slice
  nt_headers,  \* NtHeaders, <<>> until parsed
  sections,    \* Vec<SectionEntry>
  arg,         \* the argument of a utility function (utility specification)
  out,         \* the result of the utility function applied to arg
  text_bytes,        \* parse_text_section: the slice that is decoded
  decoder,           \* parse_text_section: the iced_x86 Decoder
  instructions_data, \* parse_text_section: Vec<InstructionData>
  total_offset,      \* parse_text_section: the bytes decoded so far
  text_section,      \* the SectionData returned, <<>> until then
  app,               \* the viewer: App, "none" before App::new
  top                \* the viewer: the instruction render_disassembly looked up

\* the state of parse_text_section
text_vars == <<text_bytes, decoder, instructions_data, total_offset, text_section>>

\* the state of the viewer
tui_vars == <<app, top>>

vars ==
  <<buf, build, input, pc, err, dos_header, dos_stub, nt_headers, sections, arg, out,
    text_vars, tui_vars>>

-----------------------------------------------------------------------------
(* Slices and results *)

Slice(a, b) == [s |-> a, e |-> b]

SLen(sl) == sl.e - sl.s

\* sl[i], 0-based
At(sl, i) == buf[sl.s + i + 1]

\* the bytes of a slice, as a sequence (slice.to_vec())
to_vec(sl) == [i \in 1..SLen(sl) |-> buf[sl.s + i]]

Whole == Slice(0, Len(buf))

Ok(v, rest) == [ok |-> TRUE, val |-> v, rest |-> rest]

Err(kind, rest) == [ok |-> FALSE, err |-> kind, rest |-> rest]

Min(a, b) == IF a < b THEN a ELSE b

-----------------------------------------------------------------------------
(* Limb arithmetic: the fixed-width unsigned integers of the program *)

\* n (a small natural) as an unsigned integer of k limbs
ToLimbs(n, k) == [i \in 1..k |-> IF i = 1 THEN n % 65536 ELSE IF i = 2 THEN n \div 65536 ELSE 0]

\* `x as usize` of a u32 (64-bit target): zero extension
as_usize(x) == [i \in 1..4 |-> IF i <= Len(x) THEN x[i] ELSE 0]

RECURSIVE LimbsLess(_, _, _)
\* a < b, both of the same number of limbs, compared from limb i down
LimbsLess(a, b, i) ==
  IF i = 0 THEN FALSE
  ELSE IF a[i] # b[i] THEN a[i] < b[i]
  ELSE LimbsLess(a, b, i - 1)

Less(a, b) == LimbsLess(a, b, Len(a))

RECURSIVE LimbsSub(_, _, _, _, _)
\* a - b modulo 2^(16 * Len(a)) with the borrow out: limb i on, borrow in
LimbsSub(a, b, i, borrow, acc) ==
  IF i > Len(a) THEN [val |-> acc, overflow |-> borrow = 1]
  ELSE LET d == a[i] - b[i] - borrow
       IN LimbsSub(a, b, i + 1, IF d < 0 THEN 1 ELSE 0,
                   Append(acc, IF d < 0 THEN d + 65536 ELSE d))

\* a - b on usize: the wrapped difference and whether it overflowed
usize_sub(a, b) == LimbsSub(a, b, 1, 0, <<>>)

\* min(w, n) for a usize w and a slice length n
Clamp(w, n) == IF Less(as_usize(ToLimbs(n, 2)), w) THEN n ELSE w[1] + 65536 * w[2]

-----------------------------------------------------------------------------
(* winnow::token::take_while on a complete (non-partial) byte stream *)

is_ascii(b) == b < 128

RECURSIVE MatchLen(_, _, _, _)
\* the number of leading tokens of sl, from token k on, that satisfy the
\* predicate, at most n
MatchLen(sl, n, ascii, k) ==
  IF k >= n \/ k >= SLen(sl) THEN k
  ELSE IF ascii /\ ~is_ascii(At(sl, k)) THEN k
  ELSE MatchLen(sl, n, ascii, k + 1)

\* take_while(m..=n, pred): the longest prefix of at most n tokens satisfying
\* pred (every byte, or the ASCII bytes); fewer than m is ErrorKind::Slice and
\* leaves the stream where it was
take_while(m, n, ascii, sl) ==
  LET k == IF ascii THEN MatchLen(sl, n, ascii, 0) ELSE Min(n, SLen(sl))
  IN IF k < m THEN Err("Slice", sl)
     ELSE Ok(Slice(sl.s, sl.s + k), Slice(sl.s + k, sl.e))

-----------------------------------------------------------------------------
(* utils.rs: the primitive readers *)

\* `r?` followed by K on the value: the first failure is returned as it is
Then(r, K(_)) == IF ~r.ok THEN r ELSE K(r)

LE16(sl, i) == At(sl, i) + 256 * At(sl, i + 1)

get_ascii_string(sl, len) ==
  Then(take_while(len, len, TRUE, sl), LAMBDA t : Ok(to_vec(t.val), t.rest))

RECURSIVE UntilNull(_, _)
\* bytes.iter().take_while(|b| **b != 0): the bytes of s before its first 0
UntilNull(s, i) ==
  IF i > Len(s) \/ s[i] = 0 THEN SubSeq(s, 1, i - 1) ELSE UntilNull(s, i + 1)

get_utf8_null_terminated_string(sl, len) ==
  Then(take_while(len, len, TRUE, sl), LAMBDA t : Ok(UntilNull(to_vec(t.val), 1), t.rest))

get_single_u8(sl) ==
  Then(take_while(1, 1, FALSE, sl),
       LAMBDA t : IF SLen(t.val) # 1 THEN Err("Verify", t.rest)
                  ELSE Ok(At(t.val, 0), t.rest))

get_le_u16(sl) ==
  Then(take_while(2, 2, FALSE, sl),
       LAMBDA t : IF SLen(t.val) # 2 THEN Err("Verify", t.rest)
                  ELSE Ok(LE16(t.val, 0), t.rest))

get_le_u32(sl) ==
  Then(take_while(4, 4, FALSE, sl),
       LAMBDA t : IF SLen(t.val) # 4 THEN Err("Verify", t.rest)
                  ELSE Ok(<<LE16(t.val, 0), LE16(t.val, 2)>>, t.rest))

get_le_u64(sl) ==
  Then(take_while(8, 8, FALSE, sl),
       LAMBDA t : IF SLen(t.val) # 8 THEN Err("Verify", t.rest)
                  ELSE Ok(<<LE16(t.val, 0), LE16(t.val, 2), LE16(t.val, 4), LE16(t.val, 6)>>,
                          t.rest))

RECURSIVE u16_vec_loop(_, _, _)
\* the loop of get_le_u16_vec: `left` more values to read
u16_vec_loop(sl, left, arr) ==
  IF left = 0 THEN Ok(arr, sl)
  ELSE Then(take_while(2, 2, FALSE, sl),
            LAMBDA t : IF SLen(t.val) # 2 THEN Err("Verify", t.rest)
                       ELSE u16_vec_loop(t.rest, left - 1, Append(arr, LE16(t.val, 0))))

\* a vector read that takes len for the number of bytes
get_le_u16_vec_of_bytes(sl, len) ==
  IF len % 2 # 0 THEN Err("Verify", sl) ELSE u16_vec_loop(sl, len \div 2, <<>>)

get_le_u16_vec(sl, len) ==
  IF len % 2 # 0 THEN Err("Verify", sl) ELSE u16_vec_loop(sl, len, <<>>)

-----------------------------------------------------------------------------
(* utils.rs: enumerations and bit flags *)

\* MachineType::try_from: the match arms in order (the first arm that
\* matches wins, so the second 0x284 arm, AXP64, is never taken)
MachineTable ==
  << <<0, "IMAGE_FILE_MACHINE_UNKNOWN">>, <<388, "IMAGE_FILE_MACHINE_ALPHA">>,
     <<644, "IMAGE_FILE_MACHINE_ALPHA64">>, <<467, "IMAGE_FILE_MACHINE_AM33">>,
     <<34404, "IMAGE_FILE_MACHINE_AMD64">>, <<448, "IMAGE_FILE_MACHINE_ARM">>,
     <<43620, "IMAGE_FILE_MACHINE_ARM64">>, <<452, "IMAGE_FILE_MACHINE_ARMNT">>,
     <<644, "IMAGE_FILE_MACHINE_AXP64">>, <<3772, "IMAGE_FILE_MACHINE_EBC">>,
     <<332, "IMAGE_FILE_MACHINE_I386">>, <<512, "IMAGE_FILE_MACHINE_IA64">>,
     <<25138, "IMAGE_FILE_MACHINE_LOONGARCH32">>, <<25188, "IMAGE_FILE_MACHINE_LOONGARCH64">>,
     <<36929, "IMAGE_FILE_MACHINE_M32R">>, <<614, "IMAGE_FILE_MACHINE_MIPS16">>,
     <<870, "IMAGE_FILE_MACHINE_MIPSFPU">>, <<1126, "IMAGE_FILE_MACHINE_MIPSFPU16">>,
     <<496, "IMAGE_FILE_MACHINE_POWERPC">>, <<497, "IMAGE_FILE_MACHINE_POWERPCFP">>,
     <<358, "IMAGE_FILE_MACHINE_R4000">>, <<20530, "IMAGE_FILE_MACHINE_RISCV32">>,
     <<20580, "IMAGE_FILE_MACHINE_RISCV64">>, <<20776, "IMAGE_FILE_MACHINE_RISCV128">>,
     <<418, "IMAGE_FILE_MACHINE_SH3">>, <<419, "IMAGE_FILE_MACHINE_SH3DSP">>,
     <<422, "IMAGE_FILE_MACHINE_SH4">>, <<424, "IMAGE_FILE_MACHINE_SH5">>,
     <<450, "IMAGE_FILE_MACHINE_THUMB">>, <<361, "IMAGE_FILE_MACHINE_WCEMIPSV2">> >>

RECURSIVE FirstArm(_, _, _)
\* a match over the arms of `table` from arm i on: the first arm for `value`
FirstArm(table, value, i) ==
  IF i > Len(table) THEN "Err"
  ELSE IF table[i][1] = value THEN table[i][2]
  ELSE FirstArm(table, value, i + 1)

MachineType_try_from(value) == FirstArm(MachineTable, value, 1)

\* a match that ends in a catch-all arm instead of an error
FirstArmOrUnknown(table, value, i) ==
  IF \E k \in i..Len(table) : table[k][1] = value
  THEN table[CHOOSE k \in i..Len(table) :
               table[k][1] = value /\ \A j \in i..(k - 1) : table[j][1] # value][2]
  ELSE table[1][2]

\* OptionalHeaderSubSystem::try_from
SubSystemTable ==
  << <<0, "IMAGE_SUBSYSTEM_UNKNOWN">>, <<1, "IMAGE_SUBSYSTEM_NATIVE">>,
     <<2, "IMAGE_SUBSYSTEM_WINDOWS_GUI">>, <<3, "IMAGE_SUBSYSTEM_WINDOWS_CUI">>,
     <<5, "IMAGE_SUBSYSTEM_OS2_CUI">>, <<7, "IMAGE_SUBSYSTEM_POSIX_CUI">>,
     <<8, "IMAGE_SUBSYSTEM_NATIVE_WINDOWS">>, <<9, "IMAGE_SUBSYSTEM_WINDOWS_CE_GUI">>,
     <<10, "IMAGE_SUBSYSTEM_EFI_APPLICATION">>,
     <<11, "IMAGE_SUBSYSTEM_EFI_BOOT_SERVICE_DRIVER">>,
     <<12, "IMAGE_SUBSYSTEM_EFI_RUNTIME_DRIVER">>, <<13, "IMAGE_SUBSYSTEM_EFI_ROM">>,
     <<14, "IMAGE_SUBSYSTEM_XBOX">>, <<16, "IMAGE_SUBSYSTEM_WINDOWS_BOOT_APPLICATION">> >>

OptionalHeaderSubSystem_or_unknown(value) == FirstArmOrUnknown(SubSystemTable, value, 1)

OptionalHeaderSubSystem_try_from(value) == FirstArm(SubSystemTable, value, 1)

\* DataDirectoryTableField, in declaration order
DataDirectoryFields ==
  << "EXPORT_TABLE", "IMPORT_TABLE", "RESOURCE_TABLE", "EXCEPTION_TABLE",
     "CERTIFICATE_TABLE", "BASE_RELOCATION_TABLE", "DEBUG", "ARCHITECTURE",
     "GLOBAL_PTR", "TLS_TABLE", "LOAD_CONFIG_TABLE", "BOUND_IMPORT", "IAT",
     "DELAY_IMPORT_DESCRIPTOR", "CLR_RUNTIME_HEADER", "RESERVED" >>

\* DataDirectoryTableField::try_from(u32): the match arms
DataDirectoryTable ==
  << <<0, "EXPORT_TABLE">>, <<1, "IMPORT_TABLE">>, <<2, "RESOURCE_TABLE">>,
     <<3, "EXCEPTION_TABLE">>, <<4, "CERTIFICATE_TABLE">>, <<5, "BASE_RELOCATION_TABLE">>,
     <<6, "DEBUG">>, <<7, "ARCHITECTURE">>, <<8, "GLOBAL_PTR">>, <<9, "TLS_TABLE">>,
     <<10, "LOAD_CONFIG_TABLE">>, <<11, "BOUND_IMPORT">>, <<12, "IAT">>,
     <<13, "DELAY_IMPORT_DESCRIPTOR">>, <<14, "CLR_RUNTIME_HEADER">>, <<15, "RESERVED">> >>

DataDirectoryTableField_try_from(value) == FirstArm(DataDirectoryTable, value, 1)

\* Characteristics in declaration order (Characteristics::iter()), each with
\* its mask (Into<u16>)
CharacteristicsTable ==
  << <<"IMAGE_FILE_RELOCS_STRIPPED", 1>>, <<"IMAGE_FILE_EXECUTABLE_IMAGE", 2>>,
     <<"IMAGE_FILE_LINE_NUMS_STRIPPED", 4>>, <<"IMAGE_FILE_LOCAL_SYMS_STRIPPED", 8>>,
     <<"IMAGE_FILE_AGGRESSIVE_WS_TRIM", 16>>, <<"IMAGE_FILE_LARGE_ADDRESS_AWARE", 32>>,
     <<"IMAGE_FILE_BYTES_REVERSED_LO", 64>>, <<"IMAGE_FILE_32BIT_MACHINE", 128>>,
     <<"IMAGE_FILE_DEBUG_STRIPPED", 256>>, <<"IMAGE_FILE_REMOVABLE_RUN_FROM_SWAP", 512>>,
     <<"IMAGE_FILE_NET_RUN_FROM_SWAP", 1024>>, <<"IMAGE_FILE_SYSTEM", 2048>>,
     <<"IMAGE_FILE_DLL", 4096>>, <<"IMAGE_FILE_UP_SYSTEM_ONLY", 8192>>,
     <<"IMAGE_FILE_BYTES_REVERSED_HI", 16384>> >>

\* DLLCharacteristics in declaration order, each with its mask
DLLCharacteristicsTable ==
  << <<"IMAGE_DLLCHARACTERISTICS_HIGH_ENTROPY_VA", 32>>,
     <<"IMAGE_DLLCHARACTERISTICS_DYNAMIC_BASE", 64>>,
     <<"IMAGE_DLLCHARACTERISTICS_FORCE_INTEGRITY", 128>>,
     <<"IMAGE_DLLCHARACTERISTICS_NX_COMPAT", 256>>,
     <<"IMAGE_DLLCHARACTERISTICS_NO_ISOLATION", 512>>,
     <<"IMAGE_DLLCHARACTERISTICS_NO_SEH", 1024>>,
     <<"IMAGE_DLLCHARACTERISTICS_NO_BIND", 2048>>,
     <<"IMAGE_DLLCHARACTERISTICS_APPCONTAINER", 4096>>,
     <<"IMAGE_DLLCHARACTERISTICS_WDM_DRIVER", 8192>>,
     <<"IMAGE_DLLCHARACTERISTICS_GUARD_CF", 16384>>,
     <<"IMAGE_DLLCHARACTERISTICS_TERMINAL_SERVER_AWARE", 32768>> >>

RECURSIVE BitAnd(_, _)
\* a & b on unsigned integers
BitAnd(a, b) ==
  IF a = 0 \/ b = 0 THEN 0
  ELSE (a % 2) * (b % 2) + 2 * BitAnd(a \div 2, b \div 2)

RECURSIVE BitOr(_, _)
\* a | b on unsigned integers
BitOr(a, b) ==
  IF a = 0 THEN b
  ELSE IF b = 0 THEN a
  ELSE (IF a % 2 = 1 \/ b % 2 = 1 THEN 1 ELSE 0) + 2 * BitOr(a \div 2, b \div 2)

\* a flag test that joins the bits instead of masking them
FlagSetAny(value, val) == BitOr(value, val) # 0

\* the test of the flag loops: `value & val != 0`
FlagSet(value, val) == BitAnd(value, val) # 0

RECURSIVE flags_loop(_, _, _, _)
\* `for char in X::iter() { if value & val != 0 { push(char) } }`
flags_loop(table, value, i, acc) ==
  IF i > Len(table) THEN acc
  ELSE flags_loop(table, value, i + 1,
                  IF FlagSet(value, table[i][2]) THEN Append(acc, table[i][1]) ELSE acc)

get_characteristics(value) == flags_loop(CharacteristicsTable, value, 1, <<>>)

DLLCharacteristics_from_u16(value) == flags_loop(DLLCharacteristicsTable, value, 1, <<>>)

-----------------------------------------------------------------------------
(* header_parse.rs: a run of positional field reads, each ended by `?` *)

\* a value read, converted by a fallible conversion (`try_from` with
\* `map_err(.. ErrorKind::Verify)?`)
Converted(r, v) == IF v = "Err" THEN Err("Verify", r.rest) ELSE Ok(v, r.rest)

\* one field read: the reader the code calls for a field of this kind, and
\* the conversion it applies to the value read
read_field(kind, sl) ==
  CASE kind = "u8" -> get_single_u8(sl)
    [] kind = "u32" -> get_le_u32(sl)
    [] kind = "u64" -> get_le_u64(sl)
    [] kind = "u16x4" -> get_le_u16_vec(sl, 4)
    [] kind = "u16x10" -> get_le_u16_vec(sl, 10)
    [] OTHER ->
         Then(get_le_u16(sl),
              LAMBDA r :
                CASE kind = "u16" -> r
                  [] kind = "machine" -> Converted(r, MachineType_try_from(r.val))
                  [] kind = "subsystem" ->
                       Converted(r, OptionalHeaderSubSystem_try_from(r.val))
                  [] kind = "characteristics" ->
                       Ok([value |-> r.val,
                           characteristics |-> get_characteristics(r.val)], r.rest)
                  [] kind = "dll_characteristics" ->
                       Ok(DLLCharacteristics_from_u16(r.val), r.rest))

RECURSIVE read_fields(_, _, _, _)
\* the fields of `layout` from field i on, read in order from sl into the
\* structure acc; the first read that fails ends the run
read_fields(layout, i, sl, acc) ==
  IF i > Len(layout) THEN Ok(acc, sl)
  ELSE Then(read_field(layout[i][2], sl),
            LAMBDA r : read_fields(layout, i + 1, r.rest, acc @@ (layout[i][1] :> r.val)))

\* the DOS header fields with the two reserved arrays in each other's place
DosLayoutReservedSwapped ==
  << <<"e_cblp", "u16">>, <<"e_cp", "u16">>, <<"e_crlc", "u16">>, <<"e_cparhdr", "u16">>,
     <<"e_minalloc", "u16">>, <<"e_maxalloc", "u16">>, <<"e_ss", "u16">>, <<"e_sp", "u16">>,
     <<"e_csum", "u16">>, <<"e_ip", "u16">>, <<"e_cs", "u16">>, <<"e_lfarlc", "u16">>,
     <<"e_ovno", "u16">>, <<"e_res", "u16x10">>, <<"e_oemid", "u16">>,
     <<"e_oeminfo", "u16">>, <<"e_res2", "u16x4">>, <<"e_lfanew", "u32">> >>

\* parse_dos_header, the reads after e_magic
DosLayout ==
  << <<"e_cblp", "u16">>, <<"e_cp", "u16">>, <<"e_crlc", "u16">>, <<"e_cparhdr", "u16">>,
     <<"e_minalloc", "u16">>, <<"e_maxalloc", "u16">>, <<"e_ss", "u16">>, <<"e_sp", "u16">>,
     <<"e_csum", "u16">>, <<"e_ip", "u16">>, <<"e_cs", "u16">>, <<"e_lfarlc", "u16">>,
     <<"e_ovno", "u16">>, <<"e_res", "u16x4">>, <<"e_oemid", "u16">>,
     <<"e_oeminfo", "u16">>, <<"e_res2", "u16x10">>, <<"e_lfanew", "u32">> >>

\* parse_nt_header, the COFF file header
FileHeaderLayout ==
  << <<"machine", "machine">>, <<"number_of_sections", "u16">>,
     <<"time_date_stamp", "u32">>, <<"pointer_to_symbol_table", "u32">>,
     <<"number_of_symbols", "u32">>, <<"size_of_optional_header", "u16">>,
     <<"characteristics", "characteristics">> >>

\* parse_nt_header, CommonOptionalHeaderFields after magic
CommonLayout ==
  << <<"major_linker_version", "u8">>, <<"minor_linker_version", "u8">>,
     <<"size_of_code", "u32">>, <<"size_of_initialized_data", "u32">>,
     <<"size_of_uninitialized_data", "u32">>, <<"address_of_entry_point", "u32">>,
     <<"base_of_code", "u32">> >>

\* parse_nt_header, ImageOptionalHeader32 after the common fields
Layout32 ==
  << <<"base_of_data", "u32">>, <<"image_base", "u32">>,
     <<"section_alignment", "u32">>, <<"file_alignment", "u32">>,
     <<"major_operating_system_version", "u16">>, <<"minor_operating_system_version", "u16">>,
     <<"major_image_version", "u16">>, <<"minor_image_version", "u16">>,
     <<"major_subsystem_version", "u16">>, <<"minor_subsystem_version", "u16">>,
     <<"win32_version_value", "u32">>, <<"size_of_image", "u32">>,
     <<"size_of_headers", "u32">>, <<"checksum", "u32">>,
     <<"subsystem", "subsystem">>, <<"dll_characteristics", "dll_characteristics">>,
     <<"size_of_stack_reserve", "u32">>, <<"size_of_stack_commit", "u32">>,
     <<"size_of_heap_reserve", "u32">>, <<"size_of_heap_commit", "u32">>,
     <<"loader_flags", "u32">>, <<"number_of_rva_and_sizes", "u32">> >>

\* the 64-bit fields with the stack sizes read in the other order
Layout64StackSwapped ==
  << <<"image_base", "u64">>,
     <<"section_alignment", "u32">>, <<"file_alignment", "u32">>,
     <<"major_operating_system_version", "u16">>, <<"minor_operating_system_version", "u16">>,
     <<"major_image_version", "u16">>, <<"minor_image_version", "u16">>,
     <<"major_subsystem_version", "u16">>, <<"minor_subsystem_version", "u16">>,
     <<"win32_version_value", "u32">>, <<"size_of_image", "u32">>,
     <<"size_of_headers", "u32">>, <<"checksum", "u32">>,
     <<"subsystem", "subsystem">>, <<"dll_characteristics", "dll_characteristics">>,
     <<"size_of_stack_commit", "u64">>, <<"size_of_stack_reserve", "u64">>,
     <<"size_of_heap_reserve", "u64">>, <<"size_of_heap_commit", "u64">>,
     <<"loader_flags", "u32">>, <<"number_of_rva_and_sizes", "u32">> >>

\* parse_nt_header, ImageOptionalHeader64 after the common fields
Layout64 ==
  << <<"image_base", "u64">>,
     <<"section_alignment", "u32">>, <<"file_alignment", "u32">>,
     <<"major_operating_system_version", "u16">>, <<"minor_operating_system_version", "u16">>,
     <<"major_image_version", "u16">>, <<"minor_image_version", "u16">>,
     <<"major_subsystem_version", "u16">>, <<"minor_subsystem_version", "u16">>,
     <<"win32_version_value", "u32">>, <<"size_of_image", "u32">>,
     <<"size_of_headers", "u32">>, <<"checksum", "u32">>,
     <<"subsystem", "subsystem">>, <<"dll_characteristics", "dll_characteristics">>,
     <<"size_of_stack_reserve", "u64">>, <<"size_of_stack_commit", "u64">>,
     <<"size_of_heap_reserve", "u64">>, <<"size_of_heap_commit", "u64">>,
     <<"loader_flags", "u32">>, <<"number_of_rva_and_sizes", "u32">> >>

\* parse_sections_table, a SectionEntry after name
SectionLayout ==
  << <<"virtual_size", "u32">>, <<"virtual_address", "u32">>,
     <<"size_of_raw_data", "u32">>, <<"pointer_to_raw_data", "u32">>,
     <<"pointer_to_relocations", "u32">>, <<"pointer_to_linenumbers", "u32">>,
     <<"number_of_relocations", "u16">>, <<"number_of_linenumbers", "u16">>,
     <<"characteristics", "u32">> >>

-----------------------------------------------------------------------------
(* header_parse.rs: parse_dos_header *)

MZ == <<77, 90>>

\* a magic test that looks at the first byte only
MagicStartsWithM(magic) == magic[1] = 77

\* `magic != "MZ"` is false
MagicIsMZ(magic) == magic = MZ

\* a length test that lets a short header through
DosHeaderNotLonger(header_bytes) == SLen(header_bytes) <= 64

\* `header_bytes.len() != 64` is false
DosHeaderComplete(header_bytes) == SLen(header_bytes) = 64

\* `dos_header.e_lfanew as usize - 64`: the difference, and whether the
\* subtraction overflowed (a panic with overflow checks, else wrapped)
distance_to_pe_header(e_lfanew) == usize_sub(as_usize(e_lfanew), ToLimbs(64, 4))

\* `take_while(0..=distance_to_pe_header, |_| true).parse_next(input)`
take_dos_stub(distance, inp) == take_while(0, Clamp(distance, SLen(inp)), FALSE, inp)

\* a failure inside a call that reads a sub-slice: the caller's input stands
\* where it stood when the sub-slice was taken
ErrAt(r, rest) == Err(r.err, rest)

\* `r?` on a read of a sub-slice, followed by K
ThenAt(r, rest, K(_)) == IF ~r.ok THEN ErrAt(r, rest) ELSE K(r)

\* parse_dos_header from the e_lfanew subtraction on
dos_stub_of(dos, d, rest, bld) ==
  IF d.overflow /\ bld = "debug" THEN Err("Panic", rest)
  ELSE Then(take_dos_stub(d.val, rest), LAMBDA st : Ok(<<dos, st.val>>, st.rest))

\* parse_dos_header from the magic on
dos_header_fields(header_bytes, rest, bld) ==
  ThenAt(get_ascii_string(header_bytes, 2), rest,
    LAMBDA m :
      IF ~MagicIsMZ(m.val) THEN Err("Verify", rest)
      ELSE ThenAt(read_fields(DosLayout, 1, m.rest, "e_magic" :> m.val), rest,
             LAMBDA f :
               dos_stub_of(f.val, distance_to_pe_header(f.val["e_lfanew"]), rest, bld)))

parse_dos_header(inp, bld) ==
  Then(take_while(0, 64, FALSE, inp),
    LAMBDA t :
      IF ~DosHeaderComplete(t.val) THEN Err("Incomplete", t.rest)
      ELSE dos_header_fields(t.val, t.rest, bld))

-----------------------------------------------------------------------------
(* header_parse.rs: parse_nt_header *)

\* a `match magic` that falls back to the default variant
optional_header_variant_or_default(magic) ==
  CASE magic = 267 -> "ImageOptionalHeader32"
    [] magic = 523 -> "ImageOptionalHeader64"
    [] magic = 263 -> "ImageOptionalHeaderRom"
    [] OTHER -> "ImageOptionalHeader32"

\* the `match magic` that picks the OptionalHeader variant
optional_header_variant(magic) ==
  CASE magic = 267 -> "ImageOptionalHeader32"
    [] magic = 523 -> "ImageOptionalHeader64"
    [] magic = 263 -> "ImageOptionalHeaderRom"
    [] OTHER -> "Err"

\* a length test that lets a short optional header through
OptionalHeaderNotLonger(optional_header_bytes, size_of_optional_header) ==
  SLen(optional_header_bytes) <= size_of_optional_header

\* `optional_header_bytes.len() != size_of_optional_header as usize` is false
OptionalHeaderComplete(optional_header_bytes, size_of_optional_header) ==
  SLen(optional_header_bytes) = size_of_optional_header

\* `for index in 0..n`: the index is in the range
InRange(index, n) == Less(ToLimbs(index, 2), n)

\* a DataDirectory with the two values read stored the other way round
data_directory_swapped(index, va, sz) ==
  IF DataDirectoryTableField_try_from(index) = "Err" THEN Err("Verify", sz.rest)
  ELSE Ok([virtual_address |-> sz.val, size |-> va.val,
           field |-> DataDirectoryTableField_try_from(index)], sz.rest)

\* one DataDirectory of the loop body, from the two values read
data_directory(index, va, sz) ==
  IF DataDirectoryTableField_try_from(index) = "Err" THEN Err("Verify", sz.rest)
  ELSE Ok([virtual_address |-> va.val, size |-> sz.val,
           field |-> DataDirectoryTableField_try_from(index)], sz.rest)

RECURSIVE data_directories_loop(_, _, _, _)
\* `for index in 0..header.number_of_rva_and_sizes`, from `index` on
data_directories_loop(sl, index, number_of_rva_and_sizes, data_directories) ==
  IF ~InRange(index, number_of_rva_and_sizes) THEN Ok(data_directories, sl)
  ELSE Then(get_le_u32(sl),
         LAMBDA va :
           Then(get_le_u32(va.rest),
             LAMBDA sz :
               Then(data_directory(index, va, sz),
                 LAMBDA d : data_directories_loop(d.rest, index + 1, number_of_rva_and_sizes,
                                                  Append(data_directories, d.val)))))

\* the layout of the variant's own fields
VariantLayout(variant) == IF variant = "ImageOptionalHeader32" THEN Layout32 ELSE Layout64

\* the arm of `match &mut optional_header` of a variant: sl is
\* optional_header_bytes after the common fields
optional_header_fields(variant, common, sl) ==
  IF variant = "ImageOptionalHeaderRom" THEN Ok("common" :> common, sl)
  ELSE Then(read_fields(VariantLayout(variant), 1, sl, "common" :> common),
         LAMBDA f :
           Then(data_directories_loop(f.rest, 0, f.val["number_of_rva_and_sizes"], <<>>),
             LAMBDA dd : Ok(f.val @@ ("data_directories" :> dd.val), dd.rest)))

\* parse_nt_header from the common fields on
optional_header_of(variant, magic, nt_header, rest) ==
  ThenAt(read_fields(CommonLayout, 1, magic.rest, "magic" :> magic.val), rest,
    LAMBDA common :
      ThenAt(optional_header_fields(variant, common.val, common.rest), rest,
        LAMBDA h : Ok(nt_header @@ ("optional_header" :>
                                      [variant |-> variant, header |-> h.val]), rest)))

\* an optional header read from the input itself instead of the sub-slice
parse_optional_header_from_input(optional_header_bytes, nt_header, rest) ==
  ThenAt(get_le_u16(Slice(optional_header_bytes.s, rest.e)), rest,
    LAMBDA magic :
      IF optional_header_variant(magic.val) = "Err" THEN Err("Verify", rest)
      ELSE optional_header_of(optional_header_variant(magic.val), magic, nt_header, rest))

\* parse_nt_header from the optional header on: optional_header_bytes is the
\* sub-slice taken, `rest` the input after it
parse_optional_header(optional_header_bytes, nt_header, rest) ==
  ThenAt(get_le_u16(optional_header_bytes), rest,
    LAMBDA magic :
      IF optional_header_variant(magic.val) = "Err" THEN Err("Verify", rest)
      ELSE optional_header_of(optional_header_variant(magic.val), magic, nt_header, rest))

\* parse_nt_header from the test of size_of_optional_header on
take_optional_header(nt_header, soh, inp) ==
  IF soh = 0 THEN Ok(nt_header @@ ("optional_header" :> [variant |-> "None"]), inp)
  ELSE Then(take_while(0, soh, FALSE, inp),
         LAMBDA t :
           IF ~OptionalHeaderComplete(t.val, soh) THEN Err("Incomplete", t.rest)
           ELSE parse_optional_header(t.val, nt_header, t.rest))

\* a parse_nt_header that insists on the signature "PE\0\0"
parse_nt_header_verifying_signature(inp) ==
  Then(get_ascii_string(inp, 4),
    LAMBDA sig :
      IF sig.val # <<80, 69, 0, 0>> THEN Err("Verify", sig.rest)
      ELSE Then(read_fields(FileHeaderLayout, 1, sig.rest, <<>>),
             LAMBDA fh :
               take_optional_header(("signature" :> sig.val) @@ ("file_header" :> fh.val),
                                    fh.val["size_of_optional_header"], fh.rest)))

parse_nt_header(inp) ==
  Then(get_ascii_string(inp, 4),
    LAMBDA sig :
      Then(read_fields(FileHeaderLayout, 1, sig.rest, <<>>),
        LAMBDA fh :
          take_optional_header(("signature" :> sig.val) @@ ("file_header" :> fh.val),
                               fh.val["size_of_optional_header"], fh.rest)))

-----------------------------------------------------------------------------
(* header_parse.rs: parse_sections_table *)

RECURSIVE sections_loop(_, _, _)
\* `for _ in 0..number_of_sections`, `left` iterations to go
sections_loop(sl, left, secs) ==
  IF left = 0 THEN Ok(secs, sl)
  ELSE Then(get_utf8_null_terminated_string(sl, 8),
         LAMBDA name :
           Then(read_fields(SectionLayout, 1, name.rest, "name" :> name.val),
             LAMBDA f : sections_loop(f.rest, left - 1, Append(secs, f.val))))

\* a section table loop that stops one row early
parse_sections_table_but_last(inp, pe_header) ==
  sections_loop(inp, IF pe_header["file_header"]["number_of_sections"] = 0 THEN 0
                     ELSE pe_header["file_header"]["number_of_sections"] - 1, <<>>)

parse_sections_table(inp, pe_header) ==
  sections_loop(inp, pe_header["file_header"]["number_of_sections"], <<>>)

-----------------------------------------------------------------------------
(* parse_text.rs: parse_text_section *)

DotText == <<46, 116, 101, 120, 116>>

RECURSIVE LimbsAdd(_, _, _, _, _)
\* a + b modulo 2^(16 * Len(a)) with the carry out: limb i on, carry in
LimbsAdd(a, b, i, carry, acc) ==
  IF i > Len(a) THEN [val |-> acc, overflow |-> carry = 1]
  ELSE LimbsAdd(a, b, i + 1, (a[i] + b[i] + carry) \div 65536,
                Append(acc, (a[i] + b[i] + carry) % 65536))

\* a + b on u32: the wrapped sum and whether the addition overflowed
u32_add(a, b) == LimbsAdd(a, b, 1, 0, <<>>)

\* a + b on usize
usize_add(a, b) == LimbsAdd(a, b, 1, 0, <<>>)

\* a usize known to be below 2^31, as a number
as_index(w) == w[1] + 65536 * w[2]

RECURSIVE find_text(_, _)
\* `sections.iter().find(|&x| x.name == ".text")`: the index of the first
\* such entry from entry i on, 0 when there is none
find_text(secs, i) ==
  IF i > Len(secs) THEN 0
  ELSE IF secs[i]["name"] = DotText THEN i
  ELSE find_text(secs, i + 1)

\* `input[pointer as usize ..= pointer as usize + size]`: the index panics
\* unless the last index of the range is one of input
text_range(inp, pointer, last) ==
  IF last.overflow \/ ~Less(last.val, ToLimbs(SLen(inp), 4)) THEN Err("Panic", inp)
  ELSE Ok(Slice(inp.s + as_index(pointer), inp.s + as_index(last.val) + 1), inp)

\* `pointer_to_raw_data + size as u32 > input.len() as u32`
OutOfBounds(sum, inp) == Less(ToLimbs(SLen(inp), 2), sum)

\* `size == 0`
EmptySection(size) == size = <<0, 0>>

\* parse_text_section from the test of the range on: sum is
\* `pointer_to_raw_data + size as u32`
text_bytes_of(inp, pointer, size, sum, bld) ==
  IF sum.overflow /\ bld = "debug" THEN Err("Panic", inp)
  ELSE IF OutOfBounds(sum.val, inp) THEN Err("Eof", inp)
  ELSE IF EmptySection(size) THEN Err("Fail", inp)
  ELSE text_range(inp, pointer, usize_add(as_usize(pointer), as_usize(size)))

\* parse_text_section up to the slice taken, for the entry found
text_bytes_at(inp, text_entry, bld) ==
  text_bytes_of(inp, text_entry["pointer_to_raw_data"], text_entry["size_of_raw_data"],
                u32_add(text_entry["pointer_to_raw_data"], text_entry["size_of_raw_data"]), bld)

\* parse_text_section up to the slice taken
locate_text(inp, secs, bld) ==
  IF find_text(secs, 1) = 0 THEN Err("Fail", inp)
  ELSE text_bytes_at(inp, secs[find_text(secs, 1)], bld)

\* MachineType::bitness
BitnessTable ==
  << <<"IMAGE_FILE_MACHINE_UNKNOWN", 64>>, <<"IMAGE_FILE_MACHINE_ALPHA", 32>>,
     <<"IMAGE_FILE_MACHINE_ALPHA64", 64>>, <<"IMAGE_FILE_MACHINE_AM33", 32>>,
     <<"IMAGE_FILE_MACHINE_AMD64", 64>>, <<"IMAGE_FILE_MACHINE_ARM", 32>>,
     <<"IMAGE_FILE_MACHINE_ARM64", 64>>, <<"IMAGE_FILE_MACHINE_ARMNT", 32>>,
     <<"IMAGE_FILE_MACHINE_AXP64", 64>>, <<"IMAGE_FILE_MACHINE_EBC", 32>>,
     <<"IMAGE_FILE_MACHINE_I386", 32>>, <<"IMAGE_FILE_MACHINE_IA64", 64>>,
     <<"IMAGE_FILE_MACHINE_LOONGARCH32", 32>>, <<"IMAGE_FILE_MACHINE_LOONGARCH64", 64>>,
     <<"IMAGE_FILE_MACHINE_M32R", 32>>, <<"IMAGE_FILE_MACHINE_MIPS16", 16>>,
     <<"IMAGE_FILE_MACHINE_MIPSFPU", 32>>, <<"IMAGE_FILE_MACHINE_MIPSFPU16", 16>>,
     <<"IMAGE_FILE_MACHINE_POWERPC", 32>>, <<"IMAGE_FILE_MACHINE_POWERPCFP", 32>>,
     <<"IMAGE_FILE_MACHINE_R4000", 32>>, <<"IMAGE_FILE_MACHINE_RISCV32", 32>>,
     <<"IMAGE_FILE_MACHINE_RISCV64", 64>>, <<"IMAGE_FILE_MACHINE_RISCV128", 64>>,
     <<"IMAGE_FILE_MACHINE_SH3", 32>>, <<"IMAGE_FILE_MACHINE_SH3DSP", 32>>,
     <<"IMAGE_FILE_MACHINE_SH4", 32>>, <<"IMAGE_FILE_MACHINE_SH5", 32>>,
     <<"IMAGE_FILE_MACHINE_THUMB", 32>>, <<"IMAGE_FILE_MACHINE_WCEMIPSV2", 32>> >>

\* a bitness that knows two widths only
bitness_32_or_64(machine) ==
  IF FirstArm(BitnessTable, machine, 1) = 64 /\ machine # "IMAGE_FILE_MACHINE_UNKNOWN"
  THEN 64 ELSE 32

bitness(machine) == FirstArm(BitnessTable, machine, 1)

\* the DecoderOptions of the `match file_header.machine`
decoder_options(machine) ==
  IF machine = "IMAGE_FILE_MACHINE_AMD64" THEN "AMD" ELSE "NONE"

\* Decoder::new(bitness, data, options): the decoder stands at the start of
\* data, its instruction pointer is 0
Decoder_new(bits, data, options) ==
  [bitness |-> bits, data |-> data, options |-> options, position |-> 0, ip |-> 0]

\* a can_decode that stops in front of the last byte
can_decode_before_last(d) == d.position + 1 < SLen(d.data)

\* Decoder::can_decode
can_decode(d) == d.position < SLen(d.data)

\* the longest x86 instruction
MaxInstructionLength == 15

\* RET, NOP and INT3: one byte long in every mode
OneByteOpcodes == {195, 144, 204}

\* the lengths Decoder::decode can give the next instruction: one byte for a
\* one-byte opcode, otherwise from one byte up to the longest instruction
\* that the bytes left can hold (decode never reads beyond data)
instr_lens(d) ==
  IF At(d.data, d.position) \in OneByteOpcodes THEN {1}
  ELSE 1..Min(MaxInstructionLength, SLen(d.data) - d.position)

\* the decoder after an instruction of len bytes
decoded(d, len) == [d EXCEPT !.position = @ + len, !.ip = @ + len]

\* an InstructionData whose offset is where the instruction ends
InstructionDataAtEnd(d, len, total) ==
  [offset |-> d.ip + len, size |-> len,
   bytes |-> Slice(d.data.s + total, d.data.s + total + len)]

\* an InstructionData whose bytes are copied from the start of the slice
InstructionDataFromStart(d, len, total) ==
  [offset |-> d.ip, size |-> len, bytes |-> Slice(d.data.s, d.data.s + len)]

\* the InstructionData pushed for an instruction of len bytes decoded by d
InstructionData(d, len, total) ==
  [offset |-> d.ip, size |-> len,
   bytes |-> Slice(d.data.s + total, d.data.s + total + len)]

\* the viewer has not been started
NoApp == app = "none" /\ top = <<>>

\* parse_text_section has not been called
NoTextSection ==
  /\ text_bytes = Slice(0, 0)
  /\ decoder = "none"
  /\ instructions_data = <<>>
  /\ total_offset = 0
  /\ text_section = <<>>

-----------------------------------------------------------------------------
(* The input images *)

\* the longest DOS stub of an input image
MaxStub == 2

\* the most sections an input image declares
MaxSections == 2

\* the most data directories an input image declares and holds
MaxDirs == 17

\* n filler bytes that differ from position to position
Fill(n, seed) == [i \in 1..n |-> (seed + 37 * i) % 251]

\* the little-endian bytes of a u16
B2(n) == <<n % 256, n \div 256>>

\* the little-endian bytes of an integer given by its limbs
LimbBytes(x) == IF Len(x) = 2 THEN B2(x[1]) \o B2(x[2])
                ELSE B2(x[1]) \o B2(x[2]) \o B2(x[3]) \o B2(x[4])

PE00 == <<80, 69, 0, 0>>

\* the optional header bytes of an image: `shape` is the layout the bytes
\* are laid out in, whatever the magic says
OptBytes(shape, magic, subsystem, dll, nrva, ndirs) ==
  CASE shape = "rom" -> B2(magic) \o Fill(22, 4)
    [] shape = "32" -> B2(magic) \o Fill(22, 4) \o Fill(44, 5) \o B2(subsystem) \o B2(dll)
                         \o Fill(20, 6) \o LimbBytes(nrva) \o Fill(8 * ndirs, 7)
    [] shape = "64" -> B2(magic) \o Fill(22, 4) \o Fill(44, 5) \o B2(subsystem) \o B2(dll)
                         \o Fill(36, 6) \o LimbBytes(nrva) \o Fill(8 * ndirs, 7)

\* one 40-byte section table row
SectionBytes(name) == name \o Fill(32, 8)

RECURSIVE SectionsBytes(_, _)
SectionsBytes(names, i) ==
  IF i > Len(names) THEN <<>> ELSE SectionBytes(names[i]) \o SectionsBytes(names, i + 1)

\* the image a parameter record describes
Image(p) ==
  p.magic \o Fill(58, 1) \o LimbBytes(p.lfanew)
    \o Fill(p.stub, 2)
    \o p.sig \o B2(p.machine) \o B2(p.nsec) \o Fill(12, 3) \o B2(p.soh) \o B2(p.chars)
    \o p.opt
    \o SectionsBytes(p.names, 1)
    \o Fill(p.tail, 9)

\* the first n bytes of an image
Cut(img, n) == SubSeq(img, 1, Min(n, Len(img)))

\* a well-formed AMD64 image without optional header and sections
Base ==
  [magic |-> MZ, lfanew |-> <<64, 0>>, stub |-> 0, sig |-> PE00, machine |-> 34404,
   nsec |-> 0, soh |-> 0, chars |-> 34, opt |-> <<>>, names |-> <<>>, tail |-> 0]

Magics == {MZ, <<77, 65>>, <<200, 90>>, <<77, 200>>}

\* buffers shorter than the DOS header
ShortImages == {Cut(Image([Base EXCEPT !.magic = m]), n) : m \in Magics, n \in 0..63}

LfanewValues ==
  {<<0, 0>>, <<63, 0>>, <<0, 1>>, <<0, 32768>>, <<65535, 65535>>}
    \cup {<<64 + k, 0>> : k \in 0..(MaxStub + 1)}

\* DOS headers: every magic and e_lfanew, with fewer, as many and more bytes
\* behind the header than the stub needs
DosImages ==
  {Image([Base EXCEPT !.magic = m, !.lfanew = l, !.stub = n]) :
     m \in Magics, l \in LfanewValues, n \in 0..MaxStub}
  \cup {Cut(Image([Base EXCEPT !.lfanew = l, !.stub = n]), 64 + n) :
     l \in LfanewValues, n \in 0..MaxStub}

Signatures == {PE00, <<88, 88, 88, 88>>, <<80, 69, 200, 0>>}

Machines == {34404, 332, 0, 614, 4660}

\* COFF headers without optional header
CoffImages ==
  {Cut(Image([Base EXCEPT !.lfanew = <<64 + st, 0>>, !.stub = st, !.sig = sg,
                          !.machine = mc, !.chars = ch]), 64 + st + c) :
     st \in {0, MaxStub}, sg \in Signatures, mc \in Machines, ch \in {0, 34, 65535},
     c \in {3, 4, 5, 23, 24}}

OptMagics == {267, 523, 263, 0, 268, 2817}

SubSystems == {0, 3, 4, 16, 17}

ShapeOf(magic) == IF magic = 523 THEN "64" ELSE IF magic = 263 THEN "rom" ELSE "32"

FixedSize(shape) == IF shape = "64" THEN 112 ELSE IF shape = "32" THEN 96 ELSE 24

\* images with an optional header: the magic against the layout of the bytes
MagicImages ==
  {Image([Base EXCEPT !.machine = mc, !.soh = FixedSize(sh) + 8,
                      !.opt = OptBytes(sh, mg, ss, 320, <<1, 0>>, 1), !.tail = 1]) :
     mc \in {34404, 332}, sh \in {"32", "64", "rom"}, mg \in OptMagics, ss \in SubSystems}

\* images with an optional header: the declared size against the bytes there
SizeImages ==
  {Cut(Image([Base EXCEPT !.soh = soh, !.opt = OptBytes(ShapeOf(mg), mg, 3, 320, <<1, 0>>, 1)]),
       88 + present) :
     mg \in {267, 523, 263, 0}, soh \in {1, 2, 3, 23, 24, 95, 96, 104, 111, 112, 120, 121},
     present \in {0, 1, 2, 24, 104, 120}}

DirCounts == {<<n, 0>> : n \in 0..MaxDirs} \cup {<<0, 1>>, <<65535, 65535>>}

\* images with data directories: the declared count against the rows there
DirImages ==
  {Image([Base EXCEPT !.soh = FixedSize(ShapeOf(mg)) + 8 * nd, !.nsec = 1,
                      !.opt = OptBytes(ShapeOf(mg), mg, 2, dl, n, nd),
                      !.names = <<DotText \o <<0, 0, 0>> >>]) :
     mg \in {267, 523}, n \in DirCounts, nd \in {0, 1, MaxDirs - 1, MaxDirs},
     dl \in {0, 320}}

SectionNames ==
  {DotText \o <<0, 0, 0>>, <<46, 100, 97, 116, 97, 0, 120, 0>>,
   <<108, 111, 110, 103, 110, 97, 109, 101>>, <<0, 0, 0, 0, 0, 0, 0, 0>>,
   DotText \o <<0, 0, 200>>, <<195, 169, 0, 0, 0, 0, 0, 0>>}

RECURSIVE SeqsUpTo(_, _)
\* the sequences over S of length at most n
SeqsUpTo(S, n) ==
  IF n = 0 THEN {<<>>}
  ELSE LET T == SeqsUpTo(S, n - 1)
       IN T \cup {Append(t, x) : t \in {u \in T : Len(u) = n - 1}, x \in S}

\* images with a section table: the declared count against the rows there
SectionImages ==
  {Cut(Image([Base EXCEPT !.nsec = ns, !.names = nm, !.tail = 2]), 88 + 40 * Len(nm) + t) :
     ns \in 0..MaxSections, nm \in SeqsUpTo(SectionNames, MaxSections), t \in {-1, 0, 2}}

\* the most bytes a .text section of an input image declares
MaxText == 3

\* a section table row with the raw data size and pointer given
SectionRow(name, size, pointer) ==
  name \o Fill(8, 8) \o LimbBytes(size) \o LimbBytes(pointer) \o Fill(16, 8)

DotData == <<46, 100, 97, 116, 97, 0, 0, 0>>

\* the rows in front of the .text row
RowsBefore(pre) == IF pre = 0 THEN <<>> ELSE SectionRow(DotData, <<1, 0>>, <<0, 0>>)

\* where the headers and the section table of a text image end
HeaderEnd(st, opt, pre) == 64 + st + 24 + Len(opt) + 40 * (pre + 1)

\* an image with a .text row behind `pre` other rows, and `code` behind the
\* section table
TextImage(mc, st, opt, pre, pointer, size, code) ==
  Image([Base EXCEPT !.lfanew = <<64 + st, 0>>, !.stub = st, !.machine = mc,
                     !.nsec = pre + 1, !.soh = Len(opt), !.opt = opt])
    \o RowsBefore(pre) \o SectionRow(DotText \o <<0, 0, 0>>, size, pointer) \o code

\* instruction bytes: RET, NOP and opcodes with operands
CodePatterns ==
  {[i \in 1..(MaxText + 2) |-> IF i % 3 = 1 THEN 195 ELSE IF i % 3 = 2 THEN 144 ELSE 184],
   [i \in 1..(MaxText + 2) |-> IF i % 2 = 1 THEN 184 ELSE 195],
   [i \in 1..(MaxText + 2) |-> IF i = 1 THEN 15 ELSE 5]}

\* every machine value MachineType::try_from accepts
TextMachines == {MachineTable[i][1] : i \in 1..Len(MachineTable)}

\* .text sections of every machine kind
TextMachineImages ==
  {TextImage(mc, 0, <<>>, 0, <<128, 0>>, <<2, 0>>, <<195, 144, 204>>) : mc \in TextMachines}

\* the pointers of a .text row, around the end of the headers
TextPointers(end) ==
  {<<end, 0>>, <<end + 1, 0>>, <<end + MaxText + 3, 0>>, <<0, 0>>, <<0, 1>>,
   <<65535, 65535>>, <<65534, 65535>>}

TextSizes == {<<n, 0>> : n \in 0..MaxText} \cup {<<1, 1>>, <<65535, 65535>>}

\* .text sections: the declared range against the bytes there
TextRangeImages ==
  {TextImage(34404, 0, <<>>, 0, pt, sz, Cut(code, n)) :
     pt \in TextPointers(128), sz \in TextSizes, code \in CodePatterns,
     n \in 0..(MaxText + 2)}

\* .text sections behind headers of different lengths
TextLayoutImages ==
  {TextImage(332, st, opt, pre, <<HeaderEnd(st, opt, pre) + d, 0>>, <<sz, 0>>, code) :
     st \in {0, MaxStub}, opt \in {<<>>, OptBytes("32", 267, 3, 320, <<1, 0>>, 1)},
     pre \in {0, 1}, d \in {0, 1}, sz \in {1, 2}, code \in CodePatterns}

TextImages == TextMachineImages \cup TextRangeImages \cup TextLayoutImages

Images ==
  ShortImages \cup DosImages \cup CoffImages \cup MagicImages \cup SizeImages
    \cup DirImages \cup SectionImages \cup TextImages

-----------------------------------------------------------------------------
(* The parse of one image *)

Init ==
  /\ buf \in Images
  /\ build \in {"debug", "release"}
  /\ input = Slice(0, Len(buf))
  /\ pc = "parse_dos_header"
  /\ err = "none"
  /\ dos_header = <<>>
  /\ dos_stub = Slice(0, 0)
  /\ nt_headers = <<>>
  /\ sections = <<>>
  /\ arg = "none"
  /\ out = "none"
  /\ NoTextSection
  /\ NoApp

\* the step a failed call ends the parse in
Failed(kind) == IF kind = "Panic" THEN "panicked" ELSE "failed"

\* the cursor and the outcome after a call that returned r
Returned(r, next) ==
  /\ input' = r.rest
  /\ pc' = IF r.ok THEN next ELSE Failed(r.err)
  /\ err' = IF r.ok THEN "none" ELSE r.err

DosHeaderParsed(r) ==
  /\ Returned(r, "parse_nt_header")
  /\ dos_header' = IF r.ok THEN r.val[1] ELSE dos_header
  /\ dos_stub' = IF r.ok THEN r.val[2] ELSE dos_stub

\* parse_pe_header, first call
ParseDosHeader ==
  /\ pc = "parse_dos_header"
  /\ DosHeaderParsed(parse_dos_header(input, build))
  /\ UNCHANGED <<buf, build, nt_headers, sections, arg, out, text_vars, tui_vars>>

NtHeaderParsed(r) ==
  /\ Returned(r, "parse_sections_table")
  /\ nt_headers' = IF r.ok THEN r.val ELSE nt_headers

\* parse_pe_header, second call
ParseNtHeader ==
  /\ pc = "parse_nt_header"
  /\ NtHeaderParsed(parse_nt_header(input))
  /\ UNCHANGED <<buf, build, dos_header, dos_stub, sections, arg, out, text_vars, tui_vars>>

SectionsTableParsed(r) ==
  /\ Returned(r, "sections_parsed")
  /\ sections' = IF r.ok THEN r.val ELSE sections

ParseSectionsTable ==
  /\ pc = "parse_sections_table"
  /\ SectionsTableParsed(parse_sections_table(input, nt_headers))
  /\ UNCHANGED <<buf, build, dos_header, dos_stub, nt_headers, arg, out, text_vars, tui_vars>>

\* `input.reset(start)` left out
reset_left_out(inp, start) == inp

\* `input.reset(start)`: the cursor is back where the checkpoint was taken
reset(inp, start) == start

\* parse_pe between the two passes: pass 1 has given the headers and the
\* section table, the cursor goes back to the start of the buffer
ResetCursor ==
  /\ pc = "sections_parsed"
  /\ input' = reset(input, Whole)
  /\ pc' = "parse_text_section"
  /\ UNCHANGED <<buf, build, err, dos_header, dos_stub, nt_headers, sections, arg, out,
                 text_vars, tui_vars>>

\* the machine of the file header parse_text_section is given
Machine == nt_headers["file_header"]["machine"]

TextLocated(r) ==
  /\ pc' = IF r.ok THEN "decode" ELSE Failed(r.err)
  /\ err' = IF r.ok THEN "none" ELSE r.err
  /\ text_bytes' = IF r.ok THEN r.val ELSE text_bytes
  /\ decoder' = IF r.ok THEN Decoder_new(bitness(Machine), r.val, decoder_options(Machine))
                ELSE decoder

\* parse_text_section up to the loop
LocateTextSection ==
  /\ pc = "parse_text_section"
  /\ TextLocated(locate_text(input, sections, build))
  /\ UNCHANGED <<buf, build, input, dos_header, dos_stub, nt_headers, sections, arg, out,
                 instructions_data, total_offset, text_section, tui_vars>>

\* parse_text_section, one iteration of `while decoder.can_decode()`
DecodeInstruction ==
  /\ pc = "decode"
  /\ can_decode(decoder)
  /\ \E len \in instr_lens(decoder) :
       /\ instructions_data' =
            Append(instructions_data, InstructionData(decoder, len, total_offset))
       /\ total_offset' = total_offset + len
       /\ decoder' = decoded(decoder, len)
  /\ UNCHANGED <<buf, build, input, pc, err, dos_header, dos_stub, nt_headers, sections,
                 arg, out, text_bytes, text_section, tui_vars>>

\* parse_text_section, the end of the loop and the SectionData returned
ReturnSectionData ==
  /\ pc = "decode"
  /\ ~can_decode(decoder)
  /\ text_section' = [data |-> instructions_data,
                      name |-> sections[find_text(sections, 1)]["name"],
                      bytes |-> text_bytes]
  /\ pc' = "done"
  /\ UNCHANGED <<buf, build, input, err, dos_header, dos_stub, nt_headers, sections,
                 arg, out, text_bytes, decoder, instructions_data, total_offset, tui_vars>>

Next ==
  \/ ParseDosHeader
  \/ ParseNtHeader
  \/ ParseSectionsTable
  \/ ResetCursor
  \/ LocateTextSection
  \/ DecodeInstruction
  \/ ReturnSectionData

Spec == Init /\ [][Next]_vars

-----------------------------------------------------------------------------
(* The utility functions of utils.rs, each applied on its own *)

\* the bytes an 8-byte section name field is made of: the null, an ASCII
\* letter and a byte that is not ASCII
NameBytes == {0, 116, 200}

NameFields == [1..8 -> NameBytes] \cup SectionNames

\* the names of the flags of a table
FlagNames(table) == {table[i][1] : i \in 1..Len(table)}

RECURSIVE Compose(_, _, _)
\* the bitwise OR of the masks of the flags of S, from flag i of the table on
Compose(table, S, i) ==
  IF i > Len(table) THEN 0
  ELSE BitOr(IF table[i][1] \in S THEN table[i][2] ELSE 0, Compose(table, S, i + 1))

\* a call of a utility function with its argument
Call(fn, a, bytes) ==
  /\ pc = fn
  /\ arg = a
  /\ buf = bytes

InitUtil ==
  /\ \/ \E name \in NameFields : Call("get_utf8_null_terminated_string", name, name)
     \/ \E S \in SUBSET FlagNames(CharacteristicsTable) :
          Call("get_characteristics",
               [flags |-> S, value |-> Compose(CharacteristicsTable, S, 1)], <<>>)
     \/ \E S \in SUBSET FlagNames(DLLCharacteristicsTable) :
          Call("DLLCharacteristics_from_u16",
               [flags |-> S, value |-> Compose(DLLCharacteristicsTable, S, 1)], <<>>)
  /\ build = "debug"
  /\ input = Slice(0, Len(buf))
  /\ err = "none"
  /\ dos_header = <<>>
  /\ dos_stub = Slice(0, 0)
  /\ nt_headers = <<>>
  /\ sections = <<>>
  /\ out = "none"
  /\ NoTextSection
  /\ NoApp

\* the call returns `result`
Return(fn, result) ==
  /\ pc = fn
  /\ pc' = "returned"
  /\ out' = [fn |-> fn, result |-> result]

NameDecoded(r) ==
  /\ Return("get_utf8_null_terminated_string", r)
  /\ input' = r.rest
  /\ err' = IF r.ok THEN "none" ELSE r.err

\* get_utf8_null_terminated_string(input, 8), as parse_sections_table calls it
DecodeName ==
  /\ pc = "get_utf8_null_terminated_string"
  /\ NameDecoded(get_utf8_null_terminated_string(input, 8))
  /\ UNCHANGED <<buf, build, dos_header, dos_stub, nt_headers, sections, arg, text_vars, tui_vars>>

\* Characteristics::get_characteristics(value)
DecodeCharacteristics ==
  /\ Return("get_characteristics", get_characteristics(arg.value))
  /\ UNCHANGED <<buf, build, input, err, dos_header, dos_stub, nt_headers, sections, arg, text_vars, tui_vars>>

\* DLLCharacteristics::from_u16(value)
DecodeDllCharacteristics ==
  /\ Return("DLLCharacteristics_from_u16", DLLCharacteristics_from_u16(arg.value))
  /\ UNCHANGED <<buf, build, input, err, dos_header, dos_stub, nt_headers, sections, arg, text_vars, tui_vars>>

NextUtil == DecodeName \/ DecodeCharacteristics \/ DecodeDllCharacteristics

UtilSpec == InitUtil /\ [][NextUtil]_vars

-----------------------------------------------------------------------------
(* The primitive readers of utils.rs, each called once on a cursor *)

\* the most values a vector read is asked for, and the most bytes a string
\* read is asked for
MaxVec == 4

\* the longest buffer a reader is called on
MaxRead == 2 * MaxVec + 2

\* buffers of distinct bytes, of ASCII bytes with a null among them, and of
\* ASCII bytes with one byte that is not ASCII
ReadPatterns ==
  {Fill(MaxRead, 11),
   [i \in 1..MaxRead |-> IF i = 3 THEN 0 ELSE 64 + i],
   [i \in 1..MaxRead |-> IF i = 2 THEN 200 ELSE 64 + i],
   [i \in 1..MaxRead |-> IF i = 4 THEN 233 ELSE 96 + i]}

ReadBuffers == {Cut(pattern, n) : pattern \in ReadPatterns, n \in 0..MaxRead}

\* the readers without a length argument
FixedReaders == {"get_single_u8", "get_le_u16", "get_le_u32", "get_le_u64"}

\* the readers with the argument `len`
SizedReaders == {"get_ascii_string", "get_utf8_null_terminated_string", "get_le_u16_vec"}

\* a reader is called on a cursor that stands at offset 0 or 1 of a buffer;
\* arg keeps the length asked for and the cursor before the call
InitRead ==
  /\ buf \in ReadBuffers
  /\ input \in {Slice(s, Len(buf)) : s \in 0..Min(1, Len(buf))}
  /\ \/ pc \in FixedReaders /\ arg = [len |-> 0, start |-> input]
     \/ pc \in SizedReaders /\ \E len \in 0..(MaxVec + 1) : arg = [len |-> len, start |-> input]
  /\ build = "debug"
  /\ err = "none"
  /\ dos_header = <<>>
  /\ dos_stub = Slice(0, 0)
  /\ nt_headers = <<>>
  /\ sections = <<>>
  /\ out = "none"
  /\ NoTextSection
  /\ NoApp

\* the reader returns r and leaves the `&mut` cursor at r.rest
ReadReturned(r) ==
  /\ pc' = "returned"
  /\ out' = [fn |-> pc, result |-> r]
  /\ input' = r.rest
  /\ err' = IF r.ok THEN "none" ELSE r.err

ReadU8 ==
  /\ pc = "get_single_u8"
  /\ ReadReturned(get_single_u8(input))
  /\ UNCHANGED <<buf, build, dos_header, dos_stub, nt_headers, sections, arg, text_vars, tui_vars>>

ReadU16 ==
  /\ pc = "get_le_u16"
  /\ ReadReturned(get_le_u16(input))
  /\ UNCHANGED <<buf, build, dos_header, dos_stub, nt_headers, sections, arg, text_vars, tui_vars>>

ReadU32 ==
  /\ pc = "get_le_u32"
  /\ ReadReturned(get_le_u32(input))
  /\ UNCHANGED <<buf, build, dos_header, dos_stub, nt_headers, sections, arg, text_vars, tui_vars>>

ReadU64 ==
  /\ pc = "get_le_u64"
  /\ ReadReturned(get_le_u64(input))
  /\ UNCHANGED <<buf, build, dos_header, dos_stub, nt_headers, sections, arg, text_vars, tui_vars>>

ReadAsciiString ==
  /\ pc = "get_ascii_string"
  /\ ReadReturned(get_ascii_string(input, arg.len))
  /\ UNCHANGED <<buf, build, dos_header, dos_stub, nt_headers, sections, arg, text_vars, tui_vars>>

ReadNullTerminatedString ==
  /\ pc = "get_utf8_null_terminated_string"
  /\ ReadReturned(get_utf8_null_terminated_string(input, arg.len))
  /\ UNCHANGED <<buf, build, dos_header, dos_stub, nt_headers, sections, arg, text_vars, tui_vars>>

ReadU16Vec ==
  /\ pc = "get_le_u16_vec"
  /\ ReadReturned(get_le_u16_vec(input, arg.len))
  /\ UNCHANGED <<buf, build, dos_header, dos_stub, nt_headers, sections, arg, text_vars, tui_vars>>

NextRead ==
  \/ ReadU8
  \/ ReadU16
  \/ ReadU32
  \/ ReadU64
  \/ ReadAsciiString
  \/ ReadNullTerminatedString
  \/ ReadU16Vec

ReadSpec == InitRead /\ [][NextRead]_vars

-----------------------------------------------------------------------------
(* tui/mod.rs: the viewer of a parsed file *)

\* the value the header scroll is followed up to
MaxHeaderScroll == 3

\* `tabs: vec![Tab::Disassembly, Tab::Headers]`
Tabs == <<"Disassembly", "Headers">>

\* App::new
App_new == [active_tab |-> "Disassembly", data_scroll |-> 0, header_scroll |-> 0]

\* the position of a tab in Tabs
TabIndex(tab) == CHOOSE i \in 1..Len(Tabs) : Tabs[i] = tab

\* App::next_tab: the tab behind the active one, the first one behind the last
next_tab(a) == [a EXCEPT !.active_tab = Tabs[(TabIndex(a.active_tab) % Len(Tabs)) + 1]]

\* App::scroll_down
scroll_down(a, data) ==
  IF a.active_tab = "Disassembly"
  THEN IF a.data_scroll < Len(data) THEN [a EXCEPT !.data_scroll = @ + 1] ELSE a
  ELSE [a EXCEPT !.header_scroll = @ + 1]

\* App::scroll_up
scroll_up(a) ==
  IF a.active_tab = "Disassembly"
  THEN IF a.data_scroll > 0 THEN [a EXCEPT !.data_scroll = @ - 1] ELSE a
  ELSE IF a.header_scroll > 0 THEN [a EXCEPT !.header_scroll = @ - 1] ELSE a

\* `data.get(index)`: the element as an Option, <<>> for None
get(data, index) == IF index < Len(data) THEN <<data[index + 1]>> ELSE <<>>

\* the files the viewer is followed on: .text sections of 1..MaxText bytes
\* declared, with the byte behind them that the slice takes along
TuiImages ==
  {TextImage(34404, 0, <<>>, 0, <<128, 0>>, <<n, 0>>, Cut(code, n + 1)) :
     n \in 1..MaxText, code \in CodePatterns}

\* main: the bytes of the file are handed to parse_pe
InitTui ==
  /\ buf \in TuiImages
  /\ build \in {"debug", "release"}
  /\ input = Slice(0, Len(buf))
  /\ pc = "parse_dos_header"
  /\ err = "none"
  /\ dos_header = <<>>
  /\ dos_stub = Slice(0, 0)
  /\ nt_headers = <<>>
  /\ sections = <<>>
  /\ arg = "none"
  /\ out = "none"
  /\ NoTextSection
  /\ NoApp

\* what the viewer never writes
parsed_vars ==
  <<buf, build, input, err, dos_header, dos_stub, nt_headers, sections, arg, out, text_vars>>

\* main: parse_pe has returned the file and `tui::draw(pe_file)` is called;
\* draw starts with App::new
StartViewer ==
  /\ pc = "done"
  /\ app' = App_new
  /\ pc' = "draw"
  /\ UNCHANGED <<top, parsed_vars>>

\* `terminal.draw(|frame| ui(frame, &mut app))`: render_disassembly looks the
\* top instruction up and unwraps it, render_headers looks nothing up
Draw ==
  /\ pc = "draw"
  /\ IF app.active_tab = "Disassembly"
     THEN /\ top' = get(text_section.data, app.data_scroll)
          /\ pc' = IF get(text_section.data, app.data_scroll) = <<>> THEN "panicked" ELSE "poll"
     ELSE /\ top' = top
          /\ pc' = "poll"
  /\ UNCHANGED <<app, parsed_vars>>

\* event::poll returned false: no event within 33 ms
NoEvent ==
  /\ pc = "poll"
  /\ pc' = "draw"
  /\ UNCHANGED <<app, top, parsed_vars>>

\* MouseEventKind::ScrollDown or a press of KeyCode::Down
ScrollDown ==
  /\ pc = "poll"
  /\ app.active_tab = "Headers" => app.header_scroll < MaxHeaderScroll
  /\ app' = scroll_down(app, text_section.data)
  /\ pc' = "draw"
  /\ UNCHANGED <<top, parsed_vars>>

\* MouseEventKind::ScrollUp or a press of KeyCode::Up
ScrollUp ==
  /\ pc = "poll"
  /\ app' = scroll_up(app)
  /\ pc' = "draw"
  /\ UNCHANGED <<top, parsed_vars>>

\* a press of KeyCode::Tab
NextTab ==
  /\ pc = "poll"
  /\ app' = next_tab(app)
  /\ pc' = "draw"
  /\ UNCHANGED <<top, parsed_vars>>

\* Ctrl+c or `q`: the loop is left
Quit ==
  /\ pc = "poll"
  /\ pc' = "quit"
  /\ UNCHANGED <<app, top, parsed_vars>>

NextTui ==
  \/ Next
  \/ StartViewer
  \/ Draw
  \/ NoEvent
  \/ ScrollDown
  \/ ScrollUp
  \/ NextTab
  \/ Quit

TuiSpec == InitTui /\ [][NextTui]_vars

-----------------------------------------------------------------------------
(* The bytes of the image at absolute offsets, read without the parser *)

U16At(off) == buf[off + 1] + 256 * buf[off + 2]

U32At(off) == <<U16At(off), U16At(off + 2)>>

U64At(off) == <<U16At(off), U16At(off + 2), U16At(off + 4), U16At(off + 6)>>

\* parse_dos_header has returned
DosDone ==
  pc \in {"parse_nt_header", "parse_sections_table", "sections_parsed", "parse_text_section",
          "decode", "done", "failed", "panicked"}

\* the image starts with the DOS magic
StartsWithMZ == Len(buf) >= 2 /\ SubSeq(buf, 1, 2) = MZ

-----------------------------------------------------------------------------
(* The DOS header *)

\* C1: a buffer shorter than 64 bytes, the empty one included, makes
\* parse_dos_header (and with it the parse) fail with Incomplete; it never
\* panics and yields no header.
C1_ShortBufferIsIncomplete ==
  (DosDone /\ Len(buf) < 64) =>
    (pc = "failed" /\ err = "Incomplete" /\ dos_header = <<>>)

\* a 63-byte buffer that starts with "MZ" was refused as incomplete
C1_Witness ==
  pc = "failed" /\ err = "Incomplete" /\ Len(buf) = 63 /\ StartsWithMZ

\* C2, as stated: whatever its length and its first two bytes, a buffer
\* that does not start with 4D 5A fails with Verify (Format Violation).
C2_AnyBadMagicIsVerify ==
  (DosDone /\ Len(buf) >= 2 /\ ~StartsWithMZ) => (pc = "failed" /\ err = "Verify")

\* C2, amended: a buffer that does not start with 4D 5A always fails, with
\* Incomplete when it is shorter than 64 bytes, with Verify when it has 64
\* bytes and two ASCII bytes in front, and inside the ASCII read of the magic
\* (Slice) when one of the two bytes is not ASCII.
C2_BadMagicIsRejected ==
  (DosDone /\ Len(buf) >= 2 /\ ~StartsWithMZ) =>
    /\ pc = "failed"
    /\ dos_header = <<>>
    /\ err = IF Len(buf) < 64 THEN "Incomplete"
             ELSE IF buf[1] < 128 /\ buf[2] < 128 THEN "Verify"
             ELSE "Slice"

\* a full header that starts with "MA" was refused with Verify
C2_Witness ==
  pc = "failed" /\ err = "Verify" /\ Len(buf) >= 64 /\ SubSeq(buf, 1, 2) = <<77, 65>>

\* the e_lfanew field of a buffer of at least 64 bytes
RawLfanew == U32At(60)

\* C3: on a buffer of at least 64 bytes that starts with "MZ" and whose
\* e_lfanew is below 64, parse_dos_header returns a failure: the subtraction
\* e_lfanew - 64 neither panics nor wraps into a stub length.
C3_SmallLfanewFails ==
  (DosDone /\ Len(buf) >= 64 /\ StartsWithMZ /\ Less(RawLfanew, <<64, 0>>)) =>
    (pc = "failed" /\ dos_header = <<>>)

\* C4: with e_lfanew at least 64, parse_dos_header fails with Incomplete when
\* fewer than e_lfanew - 64 bytes follow the DOS header, and when it succeeds
\* the stub has e_lfanew - 64 bytes and the cursor stands at offset e_lfanew.
C4_StubIsExact ==
  (DosDone /\ Len(buf) >= 64 /\ StartsWithMZ /\ ~Less(RawLfanew, <<64, 0>>)) =>
    /\ Less(ToLimbs(Len(buf), 2), RawLfanew) => (pc = "failed" /\ err = "Incomplete")
    /\ dos_header # <<>> =>
         /\ ToLimbs(dos_stub.e, 2) = RawLfanew
         /\ dos_stub.s = 64

-----------------------------------------------------------------------------
(* The NT headers *)

\* parse_nt_header has been called and has returned
NtDone == DosDone /\ dos_header # <<>> /\ pc # "parse_nt_header"

\* parse_nt_header returned a failure
NtFailed == NtDone /\ nt_headers = <<>>

\* parse_nt_header returned NtHeaders
NtParsed == NtDone /\ nt_headers # <<>>

\* the offset of the NT headers: where the DOS stub ends
NtStart == dos_stub.e

\* the offset of the optional header
OptStart == NtStart + 24

RawMachine == U16At(NtStart + 4)

RawSizeOfOptionalHeader == U16At(NtStart + 20)

RawOptionalMagic == U16At(OptStart)

\* the values a conversion of the table accepts
Recognized(table) == {table[i][1] : i \in 1..Len(table)}

\* parse_nt_header got as far as the dispatch on the magic: the signature and
\* the file header were read and the optional header bytes are all there
DispatchReached ==
  /\ NtDone
  /\ Len(buf) >= OptStart
  /\ \A i \in 1..4 : buf[NtStart + i] < 128
  /\ RawMachine \in Recognized(MachineTable)
  /\ RawSizeOfOptionalHeader >= 2
  /\ Len(buf) >= OptStart + RawSizeOfOptionalHeader

\* the variant of a parsed optional header, "None" without one
Variant == nt_headers["optional_header"].variant

\* the parsed optional header has the 32-bit or the 64-bit layout
Parsed32 == NtParsed /\ Variant = "ImageOptionalHeader32"

Parsed64 == NtParsed /\ Variant = "ImageOptionalHeader64"

Header == nt_headers["optional_header"].header

\* C5: with a non-zero size_of_optional_header the variant follows from the
\* little-endian magic in the first two optional header bytes alone: 0x10b the
\* 32-bit, 0x20b the 64-bit, 0x107 the ROM variant, and any other magic makes
\* parse_nt_header fail with Verify (Format Violation).
C5_MagicSelectsVariant ==
  DispatchReached =>
    /\ RawOptionalMagic \notin {267, 523, 263} => (NtFailed /\ pc = "failed" /\ err = "Verify")
    /\ NtParsed =>
         /\ Header["common"]["magic"] = RawOptionalMagic
         /\ Variant = CASE RawOptionalMagic = 267 -> "ImageOptionalHeader32"
                        [] RawOptionalMagic = 523 -> "ImageOptionalHeader64"
                        [] RawOptionalMagic = 263 -> "ImageOptionalHeaderRom"

\* an optional header laid out as a 32-bit one, under a magic that is none
\* of the three, was refused with Verify
C5_Witness ==
  /\ DispatchReached /\ NtFailed /\ err = "Verify"
  /\ RawOptionalMagic = 268
  /\ RawSizeOfOptionalHeader = 104

\* the subsystem and the number of data directories of the optional header
\* bytes of a 32-bit or 64-bit header
RawSubsystem == U16At(OptStart + 68)

RawNumberOfRvaAndSizes == U32At(OptStart + (IF Variant = "ImageOptionalHeader64" THEN 108 ELSE 92))

\* C6: parse_nt_header succeeds only on a recognized machine type and, for
\* the 32-bit and 64-bit variants, a recognized subsystem and data directory
\* indices within 0..15; when it fails, no NtHeaders value is returned.
C6_OnlySupportedValuesParse ==
  /\ NtParsed =>
       /\ RawMachine \in Recognized(MachineTable)
       /\ (Parsed32 \/ Parsed64) =>
            /\ RawSubsystem \in Recognized(SubSystemTable)
            /\ ~Less(<<16, 0>>, RawNumberOfRvaAndSizes)
            /\ \A i \in 1..Len(Header["data_directories"]) : i - 1 \in 0..15
  /\ (NtDone /\ ~NtParsed) => (pc = "failed" /\ err # "none" /\ nt_headers = <<>>)

\* a 64-bit header with all 16 data directories was parsed
C6_Witness ==
  /\ Parsed64
  /\ RawNumberOfRvaAndSizes = <<16, 0>>
  /\ Len(Header["data_directories"]) = 16

\* the offset of the data directory rows
DirStart == OptStart + (IF Variant = "ImageOptionalHeader64" THEN 112 ELSE 96)

\* C7: a 32-bit or 64-bit optional header that declares N data directories
\* and parses has N <= 16 and exactly N entries; entry i holds the virtual
\* address and the size of row i and the i-th tag of the enumeration, so no
\* two entries have the same tag.
C7_DataDirectoriesArePositional ==
  (Parsed32 \/ Parsed64) =>
    LET dd == Header["data_directories"]
    IN /\ RawNumberOfRvaAndSizes = ToLimbs(Len(dd), 2)
       /\ Len(dd) <= 16
       /\ \A i \in 1..Len(dd) :
            /\ dd[i].virtual_address = U32At(DirStart + 8 * (i - 1))
            /\ dd[i].size = U32At(DirStart + 8 * (i - 1) + 4)
            /\ dd[i].field = DataDirectoryFields[i]
       /\ \A i, j \in 1..Len(dd) : i # j => dd[i].field # dd[j].field

\* a 32-bit header with 16 data directories was parsed
C7_Witness ==
  /\ Parsed32
  /\ Len(Header["data_directories"]) = 16
  /\ Header["data_directories"][16].field = "RESERVED"

\* the names of a layout, in order
Names(layout) == [i \in 1..Len(layout) |-> layout[i][1]]

\* C8: the 64-bit variant decodes image base and the stack and heap reserve
\* and commit sizes as 8-byte little-endian values, the 32-bit variant as
\* 4-byte ones, at the same places in the run of fields (the 32-bit run has
\* base_of_data in front of image_base and is the same run otherwise).
C8_WidthSensitiveFields ==
  /\ Parsed64 =>
       /\ Header["image_base"] = U64At(OptStart + 24)
       /\ Header["size_of_stack_reserve"] = U64At(OptStart + 72)
       /\ Header["size_of_stack_commit"] = U64At(OptStart + 80)
       /\ Header["size_of_heap_reserve"] = U64At(OptStart + 88)
       /\ Header["size_of_heap_commit"] = U64At(OptStart + 96)
       /\ Names(VariantLayout(Variant)) = Tail(Names(Layout32))
  /\ Parsed32 =>
       /\ Header["image_base"] = U32At(OptStart + 28)
       /\ Header["size_of_stack_reserve"] = U32At(OptStart + 72)
       /\ Header["size_of_stack_commit"] = U32At(OptStart + 76)
       /\ Header["size_of_heap_reserve"] = U32At(OptStart + 80)
       /\ Header["size_of_heap_commit"] = U32At(OptStart + 84)
       /\ Tail(Names(VariantLayout(Variant))) = Names(Layout64)

\* a 64-bit header was parsed whose image base needs all eight bytes
C8_Witness ==
  /\ Parsed64
  /\ Len(Header["image_base"]) = 4
  /\ Header["image_base"][4] # 0
  /\ Header["size_of_stack_reserve"] # Header["size_of_stack_commit"]

-----------------------------------------------------------------------------
(* Section names and bit flags *)

Returned_from(fn) == pc = "returned" /\ out.fn = fn

\* the bytes of a field in front of its first null, all of them without one
BeforeFirstNull(field) ==
  IF \E i \in 1..Len(field) : field[i] = 0
  THEN SubSeq(field, 1, (CHOOSE i \in 1..Len(field) :
                           field[i] = 0 /\ \A j \in 1..(i - 1) : field[j] # 0) - 1)
  ELSE field

\* C9: decoding an 8-byte section name field always succeeds and yields the
\* bytes in front of the first null byte (all 8 without a null), whatever
\* follows that null.
C9_NameIsBytesBeforeNull ==
  Returned_from("get_utf8_null_terminated_string") =>
    (out.result.ok /\ out.result.val = BeforeFirstNull(buf))

\* the set of the elements of a sequence
Range(seq) == {seq[i] : i \in 1..Len(seq)}

\* C10: decoding the bitwise OR of the masks of a set S of Characteristics
\* flags, or of DLLCharacteristics flags, returns the flags of S, each once,
\* and no other flag.
C10_DecodingInvertsComposition ==
  (Returned_from("get_characteristics") \/ Returned_from("DLLCharacteristics_from_u16")) =>
    /\ Range(out.result) = arg.flags
    /\ Len(out.result) = Cardinality(arg.flags)

\* the masks of IMAGE_FILE_DLL and IMAGE_FILE_EXECUTABLE_IMAGE joined were
\* decoded into these two flags
C10_Witness ==
  /\ Returned_from("get_characteristics")
  /\ arg.flags = {"IMAGE_FILE_DLL", "IMAGE_FILE_EXECUTABLE_IMAGE"}
  /\ arg.value = 4098
  /\ out.result = <<"IMAGE_FILE_EXECUTABLE_IMAGE", "IMAGE_FILE_DLL">>

-----------------------------------------------------------------------------
(* The .text section *)

\* the parse has ended
Terminal == pc \in {"done", "failed", "panicked"}

\* parse_text_section was called and has got beyond the slice of the range,
\* or has failed or panicked
TextDone ==
  /\ nt_headers # <<>>
  /\ \/ pc \in {"decode", "done", "panicked"}
     \/ pc = "failed" /\ err \in {"Fail", "Eof"}

\* the section table has a .text row
HasText == \E i \in 1..Len(sections) : sections[i]["name"] = DotText

\* the first .text row
TextEntry ==
  sections[CHOOSE i \in 1..Len(sections) :
             sections[i]["name"] = DotText /\ \A j \in 1..(i - 1) : sections[j]["name"] # DotText]

TextPointer == TextEntry["pointer_to_raw_data"]

TextSize == TextEntry["size_of_raw_data"]

\* pointer_to_raw_data + size_of_raw_data, without a width
TextEnd == usize_add(as_usize(TextPointer), as_usize(TextSize)).val

\* C11: a .text section whose size_of_raw_data is 0 makes the disassembly
\* fail as an empty section (ErrorKind::Fail of the `size == 0` test),
\* wherever pointer_to_raw_data points and however long the buffer is.
C11_EmptySectionFails ==
  (TextDone /\ HasText /\ TextSize = <<0, 0>>) => (pc = "failed" /\ err = "Fail")

\* C12: a .text section of non-zero size whose pointer_to_raw_data +
\* size_of_raw_data, as a mathematical sum, is beyond the buffer length makes
\* parse_text_section fail as out of bounds (ErrorKind::Eof); it does not
\* panic and does not slice the buffer.
C12_OutOfBoundsFails ==
  (TextDone /\ HasText /\ TextSize # <<0, 0>> /\ Less(ToLimbs(Len(buf), 4), TextEnd)) =>
    (pc = "failed" /\ err = "Eof" /\ text_bytes = Slice(0, 0))

\* C13: on success the decoded bytes are buffer[pointer_to_raw_data ..
\* pointer_to_raw_data + size_of_raw_data), the upper bound exclusive:
\* SectionData.bytes has size_of_raw_data bytes and no instruction holds a
\* byte at or beyond the upper bound.
C13_RangeIsExclusive ==
  pc = "done" =>
    /\ text_section.bytes = Slice(as_index(TextPointer), as_index(TextEnd))
    /\ SLen(text_section.bytes) = as_index(TextSize)
    /\ \A i \in 1..Len(text_section.data) :
         text_section.data[i].bytes.e <= as_index(TextEnd)

RECURSIVE SumOfSizes(_, _)
\* the sizes of the instructions of data from instruction i on, added up
SumOfSizes(data, i) == IF i > Len(data) THEN 0 ELSE data[i].size + SumOfSizes(data, i + 1)

\* C14: in every successful disassembly, and while it is built, consecutive
\* instructions i, i+1 have offset(i) + size(i) = offset(i+1); every size is
\* at least 1, so the offsets increase strictly.
C14_OffsetsAreContiguous ==
  pc \in {"decode", "done"} =>
    /\ \A i \in 1..Len(instructions_data) : instructions_data[i].size >= 1
    /\ \A i \in 1..(Len(instructions_data) - 1) :
         /\ instructions_data[i].offset + instructions_data[i].size
              = instructions_data[i + 1].offset
         /\ instructions_data[i].offset < instructions_data[i + 1].offset
    /\ pc = "done" => text_section.data = instructions_data

\* a disassembly of two instructions of different sizes has ended
C14_Witness ==
  /\ pc = "done"
  /\ Len(text_section.data) = 2
  /\ text_section.data[1].size = 2
  /\ text_section.data[2].size = 1

\* C15: the instructions of a successful disassembly partition the decoded
\* slice: the first one has offset 0, each holds the bytes from its offset
\* on, and the sizes add up to the length of the slice, so decoding stops at
\* its end.
C15_InstructionsPartitionSlice ==
  pc = "done" =>
    /\ Len(text_section.data) >= 1
    /\ text_section.data[1].offset = 0
    /\ SumOfSizes(text_section.data, 1) = SLen(text_section.bytes)
    /\ \A i \in 1..Len(text_section.data) :
         text_section.data[i].bytes =
           Slice(text_section.bytes.s + text_section.data[i].offset,
                 text_section.bytes.s + text_section.data[i].offset + text_section.data[i].size)

\* a slice of four bytes was decoded into three instructions
C15_Witness ==
  /\ pc = "done"
  /\ SLen(text_section.bytes) = 4
  /\ Len(text_section.data) = 3
  /\ text_section.data[3].offset + text_section.data[3].size = 4

\* the image of the scenario: a DOS header with e_lfanew = 64, "PE\0\0", an
\* AMD64 file header without optional header, one .text row of 2 bytes that
\* points behind the section table, and the bytes C3 90 there, at the end
TwoInstructionImage ==
  TextImage(34404, 0, <<>>, 0, <<128, 0>>, <<2, 0>>, <<195, 144>>)

\* C16: the image of the scenario parses to two instructions, with offsets
\* 0 and 1 and lengths 1 and 1.
C16_TwoInstructionsDecoded ==
  (buf = TwoInstructionImage /\ Terminal) =>
    /\ pc = "done"
    /\ Len(text_section.data) = 2
    /\ text_section.data[1].offset = 0 /\ text_section.data[1].size = 1
    /\ text_section.data[2].offset = 1 /\ text_section.data[2].size = 1

\* C17: the image of a DOS header with e_lfanew = 64, "PE\0\0" and an AMD64
\* file header without optional header and without sections parses: the
\* parse succeeds with an empty section table and no optional header.
C17_HeadersOnlyImageParses ==
  (buf = Image(Base) /\ Terminal) =>
    (pc = "done" /\ sections = <<>> /\ Variant = "None")

\* the machine types of 64 bits
Machines64 ==
  {"IMAGE_FILE_MACHINE_ALPHA64", "IMAGE_FILE_MACHINE_AMD64", "IMAGE_FILE_MACHINE_ARM64",
   "IMAGE_FILE_MACHINE_AXP64", "IMAGE_FILE_MACHINE_IA64", "IMAGE_FILE_MACHINE_LOONGARCH64",
   "IMAGE_FILE_MACHINE_RISCV64"}

\* C18, as stated: the machine types of 64 bits are decoded in 64-bit mode,
\* every other one in 32-bit mode, IMAGE_FILE_MACHINE_UNKNOWN, MIPS16 and
\* MIPSFPU16 included.
C18_ModeIs64Or32 ==
  pc \in {"decode", "done"} =>
    decoder.bitness = IF Machine \in Machines64 THEN 64 ELSE 32

\* C18, amended: the machine types of 64 bits, RISCV128 and
\* IMAGE_FILE_MACHINE_UNKNOWN are decoded in 64-bit mode, MIPS16 and
\* MIPSFPU16 in 16-bit mode, every other one in 32-bit mode.
C18_ModeFollowsMachine ==
  pc \in {"decode", "done"} =>
    decoder.bitness =
      IF Machine \in {"IMAGE_FILE_MACHINE_MIPS16", "IMAGE_FILE_MACHINE_MIPSFPU16"} THEN 16
      ELSE IF Machine \in Machines64
                            \cup {"IMAGE_FILE_MACHINE_RISCV128", "IMAGE_FILE_MACHINE_UNKNOWN"}
           THEN 64
      ELSE 32

\* the .text section of a MIPS16 image was decoded in 16-bit mode
C18_Witness ==
  pc = "done" /\ Machine = "IMAGE_FILE_MACHINE_MIPS16" /\ decoder.bitness = 16

\* C19: the .text bytes are taken at the file offset pointer_to_raw_data of
\* the whole buffer: pass 2 starts from the cursor put back to the start of
\* the buffer, whatever e_lfanew, size_of_optional_header and
\* number_of_sections made pass 1 consume.
C19_TextIsAtAbsoluteOffset ==
  /\ pc \in {"parse_text_section", "decode", "done"} => input = Slice(0, Len(buf))
  /\ pc \in {"decode", "done"} => text_bytes.s = as_index(TextPointer)

\* a .text section was decoded behind a DOS stub, an optional header and
\* another section
C19_Witness ==
  /\ pc = "done"
  /\ SLen(dos_stub) > 0
  /\ Variant = "ImageOptionalHeader32"
  /\ Len(sections) = 2
  /\ text_section.bytes.s = as_index(TextPointer)
  /\ text_section.bytes.s > 128

\* the data directories of the parsed optional header, none without one
DataDirectories ==
  IF nt_headers # <<>> /\ Variant \in {"ImageOptionalHeader32", "ImageOptionalHeader64"}
  THEN Header["data_directories"] ELSE <<>>

\* C20: on every input buffer the parse ends with a success or a failure,
\* never in another way, and the iterations of the data directory loop, the
\* section table loop and the decode loop each took at least one byte of
\* their own, so the buffer length bounds their number.
C20_ParseEndsWithinBuffer ==
  /\ pc # "panicked"
  /\ 8 * Len(DataDirectories) <= Len(buf)
  /\ 40 * Len(sections) <= Len(buf)
  /\ Len(instructions_data) <= total_offset
  /\ total_offset <= SLen(text_bytes)
  /\ SLen(text_bytes) <= Len(buf)

-----------------------------------------------------------------------------
(* The primitive readers *)

\* a reader has returned
ReadDone == pc = "returned"

\* the bytes the read that returned requires
Required ==
  CASE out.fn = "get_single_u8" -> 1
    [] out.fn = "get_le_u16" -> 2
    [] out.fn = "get_le_u32" -> 4
    [] out.fn = "get_le_u64" -> 8
    [] out.fn = "get_le_u16_vec" -> 2 * arg.len
    [] OTHER -> arg.len

\* C21: a primitive read (8/16/32/64-bit integer, N-byte ASCII string,
\* N-byte null-terminated text, vector of N 16-bit values) called with fewer
\* bytes left in the cursor than it requires fails with Incomplete.
C21_ShortReadIsIncomplete ==
  (ReadDone /\ SLen(arg.start) < Required) =>
    (~out.result.ok /\ out.result.err = "Incomplete")

\* C22: a primitive read that fails leaves the cursor where it was before
\* the call, a vector read that fails on its k-th value included.
C22_FailedReadKeepsCursor ==
  (ReadDone /\ ~out.result.ok) => input = arg.start

\* the 16-bit little-endian values of the first n byte pairs at the cursor the
\* reader was called on
ValuesAtStart(n) == [i \in 1..n |-> U16At(arg.start.s + 2 * (i - 1))]

\* the vector read returned the first arg.len values and moved the cursor
\* behind them
VectorRead ==
  /\ out.result.ok
  /\ out.result.val = ValuesAtStart(arg.len)
  /\ input = Slice(arg.start.s + 2 * arg.len, arg.start.e)

\* C29, as stated: a read of a vector of N 16-bit values succeeds for every
\* N >= 0 when at least 2*N bytes are left, returns the N values in input
\* order and moves the cursor by 2*N bytes.
C29_VectorReads ==
  (ReadDone /\ out.fn = "get_le_u16_vec" /\ 2 * arg.len <= SLen(arg.start)) => VectorRead

\* C29, amended: with at least 2*N bytes left the read of a vector of N
\* values does so for every even N >= 0; for an odd N it fails with Verify
\* and leaves the cursor where it was.
C29_EvenVectorReads ==
  (ReadDone /\ out.fn = "get_le_u16_vec" /\ 2 * arg.len <= SLen(arg.start)) =>
    IF arg.len % 2 = 0 THEN VectorRead
    ELSE ~out.result.ok /\ out.result.err = "Verify" /\ input = arg.start

\* a vector of four values was read from a cursor with more than eight bytes
C29_Witness ==
  /\ ReadDone /\ out.fn = "get_le_u16_vec"
  /\ arg.len = 4 /\ arg.start.s = 1 /\ SLen(arg.start) > 8
  /\ out.result.ok /\ Len(out.result.val) = 4
  /\ out.result.val[1] # out.result.val[2]
  /\ SLen(input) = SLen(arg.start) - 8

-----------------------------------------------------------------------------
(* The cursor of pass 1 *)

\* the four bytes at the signature position
RawSignature == SubSeq(buf, NtStart + 1, NtStart + 4)

\* the image has a whole COFF file header of a recognized machine type and
\* declares no optional header: nothing but the signature can make
\* parse_nt_header fail
FileHeaderIsPlain ==
  /\ NtDone
  /\ Len(buf) >= OptStart
  /\ RawMachine \in Recognized(MachineTable)
  /\ RawSizeOfOptionalHeader = 0

\* C23, as stated: whatever the 4 bytes at the signature position are,
\* parse_nt_header does not fail because of them: it stores them as the
\* signature and goes on with the COFF file header.
C23_AnySignatureIsStored ==
  FileHeaderIsPlain => (NtParsed /\ nt_headers["signature"] = RawSignature)

\* C23, amended: 4 ASCII bytes at the signature position, "PE\0\0" or not,
\* are stored as the signature and the parse goes on; a byte of 0x80 or above
\* among them makes parse_nt_header fail inside the ASCII read, before the
\* COFF file header.
C23_AsciiSignatureIsStored ==
  FileHeaderIsPlain =>
    IF \A i \in 1..4 : is_ascii(RawSignature[i])
    THEN NtParsed /\ nt_headers["signature"] = RawSignature
    ELSE NtFailed /\ pc = "failed" /\ err = "Slice" /\ input.s = NtStart

\* the signature "XXXX" was stored and the file header behind it parsed
C23_Witness ==
  /\ FileHeaderIsPlain /\ NtParsed
  /\ nt_headers["signature"] = <<88, 88, 88, 88>>
  /\ nt_headers["file_header"]["machine"] = "IMAGE_FILE_MACHINE_I386"

\* parse_nt_header got as far as the optional header: the signature and the
\* file header were read and an optional header is declared
OptionalHeaderReached ==
  /\ NtDone
  /\ Len(buf) >= OptStart
  /\ \A i \in 1..4 : is_ascii(RawSignature[i])
  /\ RawMachine \in Recognized(MachineTable)
  /\ RawSizeOfOptionalHeader > 0

\* C25: when parse_nt_header has succeeded the cursor stands 24 +
\* size_of_optional_header bytes behind the start of the NT headers, which is
\* offset e_lfanew, whatever the variant and the number of data directories;
\* with fewer than size_of_optional_header bytes behind the file header it
\* fails with Incomplete.
C25_CursorIsBehindOptionalHeader ==
  /\ pc = "parse_sections_table" =>
       /\ ToLimbs(NtStart, 2) = RawLfanew
       /\ input = Slice(NtStart + 24 + RawSizeOfOptionalHeader, Len(buf))
  /\ (OptionalHeaderReached /\ Len(buf) < OptStart + RawSizeOfOptionalHeader) =>
       (NtFailed /\ pc = "failed" /\ err = "Incomplete")

\* a 64-bit header with 16 data directories was parsed, and the section
\* table is next
C25_Witness ==
  /\ pc = "parse_sections_table"
  /\ Variant = "ImageOptionalHeader64"
  /\ Len(Header["data_directories"]) = 16
  /\ input.s = NtStart + 24 + 240

\* a ROM header of 24 bytes was parsed out of 104 optional header bytes
C25_SlackWitness ==
  /\ pc = "parse_sections_table"
  /\ Variant = "ImageOptionalHeaderRom"
  /\ input.s = OptStart + 104

\* C30: a 32-bit header that parses with N data directories has 96 + 8*N <=
\* size_of_optional_header, a 64-bit one 112 + 8*N, a ROM one 24: the
\* optional header reads stay within the sub-slice and take no byte of the
\* section table behind it.
C30_ReadsStayInOptionalHeader ==
  /\ Parsed32 => 96 + 8 * Len(Header["data_directories"]) <= RawSizeOfOptionalHeader
  /\ Parsed64 => 112 + 8 * Len(Header["data_directories"]) <= RawSizeOfOptionalHeader
  /\ (NtParsed /\ Variant = "ImageOptionalHeaderRom") => 24 <= RawSizeOfOptionalHeader
  /\ (Parsed32 \/ Parsed64) =>
       RawNumberOfRvaAndSizes = ToLimbs(Len(Header["data_directories"]), 2)

\* a 32-bit header that declares 16 data directories in exactly 96 + 128
\* bytes was parsed, with a section table behind it
C30_Witness ==
  /\ Parsed32
  /\ Len(Header["data_directories"]) = 16
  /\ RawSizeOfOptionalHeader = 224
  /\ nt_headers["file_header"]["number_of_sections"] = 1

-----------------------------------------------------------------------------
(* The section table *)

RawNumberOfSections == U16At(NtStart + 6)

\* the offset of the section table
SecStart == OptStart + RawSizeOfOptionalHeader

\* the offset of row i of the section table
RowAt(i) == SecStart + 40 * (i - 1)

\* parse_sections_table has returned the table
SecParsed ==
  /\ NtParsed
  /\ \/ pc \in {"sections_parsed", "parse_text_section", "decode", "done", "panicked"}
     \/ pc = "failed" /\ err \in {"Fail", "Eof"}

\* parse_sections_table has returned a failure
SecFailed == NtParsed /\ pc = "failed" /\ err \notin {"Fail", "Eof"}

\* the section table has all its rows and every name field is ASCII
RowsAreThere ==
  /\ Len(buf) >= RowAt(RawNumberOfSections + 1)
  /\ \A i \in 1..RawNumberOfSections : \A k \in 1..8 : is_ascii(buf[RowAt(i) + k])

\* the SectionEntry of the bytes of row i
RowEntry(i) ==
  [name |-> BeforeFirstNull(SubSeq(buf, RowAt(i) + 1, RowAt(i) + 8)),
   virtual_size |-> U32At(RowAt(i) + 8),
   virtual_address |-> U32At(RowAt(i) + 12),
   size_of_raw_data |-> U32At(RowAt(i) + 16),
   pointer_to_raw_data |-> U32At(RowAt(i) + 20),
   pointer_to_relocations |-> U32At(RowAt(i) + 24),
   pointer_to_linenumbers |-> U32At(RowAt(i) + 28),
   number_of_relocations |-> U16At(RowAt(i) + 32),
   number_of_linenumbers |-> U16At(RowAt(i) + 34),
   characteristics |-> U32At(RowAt(i) + 36)]

\* C26: parse_sections_table with number_of_sections = n returns the n rows
\* of the table in file order and leaves the cursor 40*n bytes further, or it
\* fails and returns no entry, which it does when fewer than 40*n bytes are
\* left or a name field is not ASCII text; it never returns fewer than n
\* entries.
C26_SectionTableIsAllOrNothing ==
  /\ SecParsed =>
       /\ RowsAreThere
       /\ Len(sections) = RawNumberOfSections
       /\ \A i \in 1..Len(sections) :
            \A f \in DOMAIN RowEntry(i) : sections[i][f] = RowEntry(i)[f]
  /\ pc = "sections_parsed" => input = Slice(RowAt(RawNumberOfSections + 1), Len(buf))
  /\ SecFailed => (sections = <<>> /\ ~RowsAreThere)

\* a table of two rows was parsed, with bytes left behind it
C26_Witness ==
  /\ pc = "sections_parsed"
  /\ Len(sections) = 2
  /\ sections[1]["name"] # sections[2]["name"]
  /\ SLen(input) = 2

\* a table whose second row is cut short was refused
C26_FailureWitness ==
  /\ SecFailed
  /\ RawNumberOfSections = 2
  /\ Len(buf) = RowAt(3) - 1

-----------------------------------------------------------------------------
(* The fields of the DOS header *)

\* the 16-bit fields in front of e_res, in the order of their reads
DosWords ==
  << "e_cblp", "e_cp", "e_crlc", "e_cparhdr", "e_minalloc", "e_maxalloc", "e_ss", "e_sp",
     "e_csum", "e_ip", "e_cs", "e_lfarlc", "e_ovno" >>

\* C27: on a buffer of at least 64 bytes that starts with "MZ" no read of a
\* DOS header field fails, and the reads take the 64 bytes exactly: the 13
\* words behind the magic, e_res of 4 words, e_oemid, e_oeminfo, e_res2 of 10
\* words, and e_lfanew, the little-endian value of bytes 60..63, behind which
\* no byte of the 64 is left.
C27_DosFieldsFillTheHeader ==
  (DosDone /\ Len(buf) >= 64 /\ StartsWithMZ) =>
    /\ pc = "failed" => dos_header # <<>>
    /\ read_fields(DosLayout, 1, Slice(2, 64), <<>>).ok
    /\ read_fields(DosLayout, 1, Slice(2, 64), <<>>).rest = Slice(64, 64)
    /\ dos_header # <<>> =>
         /\ dos_header["e_magic"] = MZ
         /\ \A i \in 1..Len(DosWords) : dos_header[DosWords[i]] = U16At(2 * i)
         /\ dos_header["e_res"] = [i \in 1..4 |-> U16At(26 + 2 * i)]
         /\ dos_header["e_oemid"] = U16At(36)
         /\ dos_header["e_oeminfo"] = U16At(38)
         /\ dos_header["e_res2"] = [i \in 1..10 |-> U16At(38 + 2 * i)]
         /\ dos_header["e_lfanew"] = U32At(60)

\* a DOS header whose e_lfanew is above 64 was parsed
C27_Witness ==
  /\ DosDone /\ dos_header # <<>>
  /\ dos_header["e_lfanew"] = <<64 + MaxStub, 0>>
  /\ Len(dos_header["e_res"]) = 4
  /\ Len(dos_header["e_res2"]) = 10
  /\ dos_header["e_res2"][10] = U16At(58)

-----------------------------------------------------------------------------
(* The bytes of an instruction *)

\* C28: every instruction record holds the bytes of the decoded slice from
\* its offset to its offset + size, as many as its size, and at every
\* iteration of the loop the offset the decoder reports next equals the
\* running total of the bytes copied.
C28_BytesAreAtTheOffset ==
  pc \in {"decode", "done"} =>
    /\ decoder.ip = total_offset
    /\ decoder.position = total_offset
    /\ \A i \in 1..Len(instructions_data) :
         /\ SLen(instructions_data[i].bytes) = instructions_data[i].size
         /\ instructions_data[i].bytes.s = text_bytes.s + instructions_data[i].offset
         /\ instructions_data[i].bytes.e =
              text_bytes.s + instructions_data[i].offset + instructions_data[i].size

\* a third instruction of two bytes was recorded behind two of one byte,
\* and the loop has not been left yet
C28_Witness ==
  /\ pc = "decode"
  /\ Len(instructions_data) = 3
  /\ instructions_data[3].offset = 2
  /\ instructions_data[3].size = 2
  /\ to_vec(instructions_data[3].bytes) = <<184, 195>>
  /\ total_offset = 4

-----------------------------------------------------------------------------
(* The viewer *)

\* C24: after any sequence of scroll_down, scroll_up and next_tab events from
\* data_scroll = 0, data_scroll is an index of the instruction list, so the
\* lookup of the top instruction in render_disassembly succeeds: the viewer
\* does not panic.
C24_ScrollStaysInRange ==
  pc \in {"draw", "poll", "quit", "panicked"} =>
    /\ app.data_scroll < Len(text_section.data)
    /\ pc # "panicked"

====
